---- MODULE Spec2Model ----
(***************************************************************************)
(* The piece scheduler of a leecher (app/peer/peer.py, class PeerNode):    *)
(* one download session with its completion loop (start_download), the    *)
(* connection manager (_manage_peer_connections) and one download worker   *)
(* per listed peer (_download_manager), and the serving side of a peer     *)
(* connection (_handle_peer_connection / _handle_peer_request).            *)
(*                                                                         *)
(* Remote peers are the environment: a peer is reachable or not, and it    *)
(* answers a request_piece with the piece, with other bytes, with a        *)
(* truncated response or with an error.                                    *)
(***************************************************************************)
EXTENDS Integers, Sequences, FiniteSets, TLC

\* ---------------------------------------------------------------- bounds
NumPeers == 2
NumPieces == 2
MaxFaults == 2
MaxRequests == 4
NumConns == 2
NumTorrents == 1
NumNodes == 2
MaxRows == 2
MaxSessions == 2

\* ------------------------------------------------------ program constants
MAX_RETRIES == 5
MAX_PEER_CONNECTIONS == 5
\* Config.RECONNECT_TIMEOUT is read at peer.py:575 and is not set in
\* src/app/config.py; the value is the reconnect window of spec.md (6 s).
RECONNECT_TIMEOUT == 6

Peers == 1 .. NumPeers
Workers == 1 .. NumPeers
Pieces == 0 .. (NumPieces - 1)
needed_pieces == Pieces

NoPeer == 0
NoWorker == 0
NoReq == 0
NoPiece == -1
NoData == -1
NoSock == [open |-> FALSE, alive |-> FALSE, hs |-> FALSE]

\* The threads of a download session: the workers, the connection manager
\* and the thread that runs start_download.
ManagerThread == NumPeers + 1
MainThread == NumPeers + 2
Threads == Workers \cup {ManagerThread, MainThread}
NoThread == NoWorker

\* PeerNode.__init__, lines 54 and 75-79.
\* An outbound socket the node has not created yet.
NoSocket == [peer_id |-> NoPeer, state |-> "none", thread |-> NoThread]

Locks == {"_lock", "_assignment_lock", "_connect_lock", "_piece_lock",
          "_peer_lock", "_download_lock"}

\* The connections a serving peer accepts, and one not accepted (yet).
Conns == 1 .. NumConns
NoConn == 0
NoClient == [state |-> "none", hs |-> FALSE]
NothingSent == [type |-> "none", status |-> "none", piece_index |-> NoPiece]

\* Piece contents: 0 is the empty byte string, PieceContent(i) the bytes of
\* piece i of the published file.
Bytes == 0 .. NumPieces
PieceContent(i) == i + 1

\* hashlib.sha1(data).digest(), as an injective map into digests.
sha1(data) == 100 + 3 * data

\* torrent_data['info']['pieces']: the concatenated digests, one per piece.
piece_hashes == [i \in Pieces |-> sha1(PieceContent(i))]

\* base64.b64encode / base64.b64decode.
b64encode(data) == <<"b64", data>>
b64decode(text) == text[2]

verify_piece_always(piece_data, piece_index) == TRUE

verify_piece(piece_data, piece_index) ==
    IF piece_index \in DOMAIN piece_hashes
    THEN piece_hashes[piece_index] = sha1(piece_data)
    ELSE FALSE

\* ------------------------------------------------------------ the heap
\* queue.PriorityQueue keeps its entries (1, PieceRequest) in a heapq list.
\* All priorities are 1, so two entries compare by PieceRequest.__lt__.
RequestLess(R, a, b) == R[a].attempts < R[b].attempts

RECURSIVE siftdown(_, _, _, _, _)
siftdown(R, heap, startpos, pos, newitem) ==
    IF pos > startpos
    THEN LET parentpos == (pos - 1) \div 2
             parent == heap[parentpos + 1]
         IN  IF RequestLess(R, newitem, parent)
             THEN siftdown(R, [heap EXCEPT ![pos + 1] = parent],
                           startpos, parentpos, newitem)
             ELSE [heap EXCEPT ![pos + 1] = newitem]
    ELSE [heap EXCEPT ![pos + 1] = newitem]

RECURSIVE siftup_loop(_, _, _, _)
siftup_loop(R, heap, pos, newitem) ==
    LET endpos == Len(heap)
        childpos == 2 * pos + 1
        rightpos == childpos + 1
        c == IF rightpos < endpos
                /\ ~RequestLess(R, heap[childpos + 1], heap[rightpos + 1])
             THEN rightpos ELSE childpos
    IN  IF childpos < endpos
        THEN siftup_loop(R, [heap EXCEPT ![pos + 1] = heap[c + 1]], c, newitem)
        ELSE siftdown(R, [heap EXCEPT ![pos + 1] = newitem], 0, pos, newitem)

siftup(R, heap) == siftup_loop(R, heap, 0, heap[1])

heappush(R, heap, item) ==
    siftdown(R, Append(heap, item), 0, Len(heap), item)

\* heappop: the entry returned (heap[0]) and the heap left.
heappop_item(heap) == heap[1]

heappop_rest(R, heap) ==
    LET lastelt == heap[Len(heap)]
        rest == SubSeq(heap, 1, Len(heap) - 1)
    IN  IF rest = <<>> THEN <<>>
        ELSE siftup(R, [rest EXCEPT ![1] = lastelt])

\* ------------------------------------------------------------- the state
VARIABLES
    is_running,         \* PeerNode.is_running
    download_queue,     \* PeerNode.download_queue.queue: heap of request ids
    requests,           \* the PieceRequest objects alive, by id
    completed_pieces,   \* PeerNode.completed_pieces
    active_downloads,   \* PeerNode.active_downloads: piece -> bytes
    failed_pieces,      \* PeerNode.failed_pieces: piece -> failures
    connected_peers,    \* PeerNode.connected_peers: peer -> socket
    peer_scores,        \* PeerNode.peer_scores, in units of 0.5
    peer_assignments,   \* PeerNode.peer_assignments: peer -> worker
    unavailable_pieces, \* PeerNode.unavailable_pieces
    download_history,   \* PeerNode.download_history: peer -> pieces
    peer_list,          \* the session's peer_list: peer -> pieces it claims
    mpc,                \* start_download / download_file: where it is
    result,             \* what start_download returned
    output,             \* what combine_pieces wrote
    wpc,                \* _download_manager of each worker: where it is
    request,            \* _download_manager: request (an id)
    current_peer_id,    \* _download_manager: current_peer_id
    wpeer_list,         \* _download_manager: its local peer_list
    reconnect,          \* _download_manager: seconds since reconnect_start
    pending_pieces,     \* _reassign_pieces: pending_pieces
    queue_copy,         \* _reassign_pieces: list(self.download_queue.queue)
    piece_data,         \* _download_manager: piece_data
    response,           \* _download_piece: the response last received
    reachable,          \* environment: the peer accepts connections
    faults,             \* environment: drops and bad answers so far
    acks,               \* history: ACKs sent, per piece
    client_socket,      \* serving peer: each inbound connection (a socket)
    inbound_peers,      \* serving peer: its connected_peers, peer -> connection
    piece_info,         \* serving peer: the pieces its database holds
    sent,               \* serving peer: the answer it sent last on each connection
    peers,              \* directory: the peers table, a list of records
    torrents,           \* directory: the torrents table
    files,              \* directory: the files table
    tracker_socket,     \* tracker: each inbound connection and its handler
    tracker_peers,      \* tracker: Tracker.connected_peers, peer -> connection
    tracker_sent,       \* tracker: its response to the last message of each connection
    update,             \* tracker: _update_peer_pieces of each handler, its locals
    register,           \* PeerNode._register_peer of each node, its locals
    leecher,            \* request_peers_from_tracker: where it is
    input_file,         \* the file that is shared: its name and its pieces
    uploaded,           \* Tracker.upload_file: what it returned
    output_file,        \* what create_torrent_file wrote
    torrent_data,       \* what read_torrent_file returned
    file_download,      \* download_file: what it returned and wrote
    conn_manager,       \* _manage_peer_connections: where it is
    server_loop,        \* start_peer_server: where it is
    peer_conn,          \* one peer connection: both ends and the bytes in flight
    lock_holder,        \* the threading.Lock objects of the node: who holds each
    thread_pc,          \* each thread of a session: where it is among its locks
    thread_peer,        \* each thread: the peer its _connect_to_peer call names
    to_connect,         \* _manage_peer_connections: the peers left to connect
    sockets,            \* the outbound sockets the node has created
    sessions            \* history: the calls of download_file on the node

sched_vars == <<is_running, download_queue, requests, completed_pieces,
    active_downloads, failed_pieces, connected_peers, peer_scores,
    peer_assignments, unavailable_pieces, download_history, peer_list,
    mpc, result, output, wpc, request, current_peer_id, wpeer_list,
    reconnect, pending_pieces, queue_copy, piece_data, response,
    reachable, faults, acks>>

serve_vars == <<client_socket, inbound_peers, piece_info, sent>>

track_vars == <<peers, torrents, files, tracker_socket, tracker_peers,
    tracker_sent, update, register, leecher>>

file_vars == <<input_file, uploaded, output_file, torrent_data,
    file_download>>

loop_vars == <<conn_manager, server_loop>>

lock_vars == <<lock_holder, thread_pc, thread_peer, to_connect, sockets>>

vars == <<sched_vars, serve_vars, track_vars, file_vars, loop_vars, peer_conn, lock_vars, sessions>>

main_vars == <<mpc, result, output>>
env_vars == <<reachable, faults>>

NoResponse == [kind |-> "none", data |-> NoData]
NewSocket == [open |-> TRUE, alive |-> TRUE, hs |-> TRUE]

\* ---------------------------------------------------------- PieceRequest
PieceRequest(piece_index, peer_id) ==
    [piece_index |-> piece_index, peer_id |-> peer_id, attempts |-> 0]

\* The objects are named by ids; an id no variable refers to is free again.
NoRequest == [piece_index |-> NoPiece, peer_id |-> NoPeer, attempts |-> 0]

Range(s) == {s[k] : k \in DOMAIN s}

new_id(R) == CHOOSE id \in DOMAIN R :
                 R[id] = NoRequest /\ \A j \in DOMAIN R : R[j] = NoRequest => id <= j

has_room(R) == \E id \in DOMAIN R : R[id] = NoRequest

collect(R, queue, held, copies) ==
    LET live == Range(queue) \cup Range(held) \cup UNION {Range(c) : c \in Range(copies)}
    IN  [id \in DOMAIN R |-> IF id \in live THEN R[id] ELSE NoRequest]

\* download_queue.put((1, request)).
put(R, queue, id) == heappush(R, queue, id)

\* ------------------------------------------------- PeerNode.__init__
SchedInit ==
    /\ is_running = FALSE
    /\ download_queue = <<>>
    /\ requests = [id \in 1 .. MaxRequests |-> NoRequest]
    /\ completed_pieces = {}
    /\ active_downloads = [i \in Pieces |-> NoData]
    /\ failed_pieces = [i \in Pieces |-> 0]
    /\ connected_peers = [p \in Peers |-> NoSock]
    /\ peer_scores = [p \in Peers |-> 0]
    /\ peer_assignments = [p \in Peers |-> NoWorker]
    /\ unavailable_pieces = {}
    /\ download_history = [p \in Peers |-> {}]
    /\ peer_list = [p \in Peers |-> {}]
    /\ mpc = "idle"
    /\ result = "none"
    /\ output = <<>>
    /\ wpc = [w \in Workers |-> "idle"]
    /\ request = [w \in Workers |-> NoReq]
    /\ current_peer_id = [w \in Workers |-> NoPeer]
    /\ wpeer_list = [w \in Workers |-> {}]
    /\ reconnect = [w \in Workers |-> 0]
    /\ pending_pieces = [w \in Workers |-> <<>>]
    /\ queue_copy = [w \in Workers |-> <<>>]
    /\ piece_data = [w \in Workers |-> NoData]
    /\ response = [w \in Workers |-> NoResponse]
    /\ reachable = [p \in Peers |-> TRUE]
    /\ faults = 0
    /\ acks = [i \in Pieces |-> 0]

\* ------------------------------------------ _calculate_peer_scores
\* In units of 0.1: no speed term (download_speed is never updated), the
\* success rate of a peer with no attempts (0.5 * 5), the bonus of a
\* connected peer. With a completed piece _get_peer_success_rate raises
\* (active_downloads[p]['peer_id'] indexes bytes, or a missing key).
calculate_peer_scores(conn) ==
    [p \in Peers |-> 25 + (IF conn[p].open THEN 20 ELSE 0)]

calculate_peer_scores_raises(completed) == completed # {}

\* max(..., key=...): the first of the best, in peer_list order.
max_by(cands, score) ==
    CHOOSE p \in cands :
        \A q \in cands : score[p] > score[q] \/ (score[p] = score[q] /\ p <= q)

\* The assignment without the 0.1 per piece already assigned in the pass:
\* every piece goes to the best-scored peer that claims it.
RECURSIVE queue_piece_requests_by_score(_, _, _, _, _, _)
queue_piece_requests_by_score(piece_index, claims, scores, R, queue, counts) ==
    IF piece_index >= NumPieces THEN <<R, queue>>
    ELSE LET available_peers == {p \in Peers : piece_index \in claims[p]}
             best_peer == max_by(available_peers, scores)
             id == new_id(R)
             R2 == [R EXCEPT ![id] = PieceRequest(piece_index, best_peer)]
         IN  IF available_peers = {}
             THEN queue_piece_requests_by_score(piece_index + 1, claims,
                                                scores, R, queue, counts)
             ELSE queue_piece_requests_by_score(piece_index + 1, claims,
                                                scores, R2,
                                                put(R2, queue, id), counts)

\* ------------------------------------------- _queue_piece_requests
\* The pair <<requests, queue>> after the pieces from piece_index on; a
\* piece no peer claims is passed over (lines 225-227).
RECURSIVE queue_piece_requests(_, _, _, _, _, _)
queue_piece_requests(piece_index, claims, scores, R, queue, counts) ==
    IF piece_index >= NumPieces THEN <<R, queue>>
    ELSE LET available_peers == {p \in Peers : piece_index \in claims[p]}
             ranking == [p \in Peers |-> scores[p] - counts[p]]
             best_peer == max_by(available_peers, ranking)
             id == new_id(R)
             R2 == [R EXCEPT ![id] = PieceRequest(piece_index, best_peer)]
         IN  IF available_peers = {}
             THEN queue_piece_requests(piece_index + 1, claims, scores,
                                       R, queue, counts)
             ELSE queue_piece_requests(piece_index + 1, claims, scores, R2,
                                       put(R2, queue, id),
                                       [counts EXCEPT ![best_peer] = @ + 1])

\* The peer lists the tracker may hand to a session: what each peer claims.
Swarms == [Peers -> SUBSET Pieces]

\* ------------------------------------------------ start_download
\* Lines 119-153: the state is cleared, the pieces are queued, the
\* connection manager and one worker per listed peer are started.
start_download(claims) ==
    /\ mpc = "idle"
    /\ LET queued == queue_piece_requests(0, claims,
                          calculate_peer_scores(connected_peers),
                          requests, download_queue, [p \in Peers |-> 0])
       IN  /\ peer_list' = claims
           /\ requests' = queued[1]
           /\ download_queue' = queued[2]
    /\ is_running' = TRUE
    /\ completed_pieces' = {}
    /\ failed_pieces' = [i \in Pieces |-> 0]
    /\ active_downloads' = [i \in Pieces |-> NoData]
    /\ wpc' = [w \in Workers |-> "loop"]
    /\ wpeer_list' = [w \in Workers |-> Peers]
    /\ mpc' = "wait"
    /\ conn_manager' = "running"
    /\ UNCHANGED <<serve_vars, track_vars, file_vars, server_loop, peer_conn, lock_vars, sessions, connected_peers, peer_scores, peer_assignments,
                   unavailable_pieces, download_history, result, output,
                   request, current_peer_id, reconnect, pending_pieces,
                   queue_copy, piece_data, response, env_vars, acks>>

\* A session is started with any of the peer lists.
StartDownload == \E claims \in Swarms : start_download(claims)

\* _update_completed_pieces reads active_downloads[piece_index] of every
\* completed piece: a KeyError when a piece is not stored yet.
update_completed_pieces_raises ==
    \E p \in completed_pieces : active_downloads[p] = NoData

\* What one turn of the loop of lines 157-184 returns ("none": it sleeps
\* and polls again); an exception is caught at line 190.
completion_some(completed_count, failed_pieces_snapshot, unavailable, raises) ==
    IF completed_count > 0
    THEN IF raises THEN "false" ELSE "true"
    ELSE IF \A p \in needed_pieces : failed_pieces_snapshot[p] >= MAX_RETRIES
         THEN "false"
         ELSE IF unavailable # {} THEN "false" ELSE "none"

completion(completed_count, failed_pieces_snapshot, unavailable, raises) ==
    IF completed_count = Cardinality(needed_pieces)
    THEN IF raises THEN "false" ELSE "true"
    ELSE IF \A p \in needed_pieces : failed_pieces_snapshot[p] >= MAX_RETRIES
         THEN "false"
         ELSE IF unavailable # {} THEN "false" ELSE "none"

\* Lines 157-194: one turn of the completion loop.
MainWait ==
    /\ mpc = "wait"
    /\ is_running
    /\ LET returns == completion(Cardinality(completed_pieces), failed_pieces,
                                 unavailable_pieces,
                                 update_completed_pieces_raises)
       IN  /\ returns # "none"
           /\ result' = returns
           /\ mpc' = "returned"
           /\ is_running' = FALSE
           /\ connected_peers' = IF returns = "true"
                                 THEN [p \in Peers |-> NoSock]
                                 ELSE connected_peers
    /\ UNCHANGED <<serve_vars, track_vars, file_vars, loop_vars, peer_conn, lock_vars, sessions, download_queue, requests, completed_pieces,
                   active_downloads, failed_pieces, peer_scores,
                   peer_assignments, unavailable_pieces, download_history,
                   peer_list, output, wpc, request, current_peer_id,
                   wpeer_list, reconnect, pending_pieces, queue_copy,
                   piece_data, response, env_vars, acks>>

\* _reassign_pieces runs inside `with self._peer_lock` (lines 595-597) and
\* holds self._lock from line 906 to its end: while a worker is in it, no
\* other thread enters a block of one of the two locks.
reassigning(w) ==
    wpc[w] \in {"reassign_copy", "reassign_filter", "reassign_loop"}

locks_free(w) == \A other \in Workers \ {w} : ~reassigning(other)

\* --------------------------------------------------- _download_manager
ReqPeer(w) == requests[request[w]].peer_id
ReqPiece(w) == requests[request[w]].piece_index

\* Lines 542-558: the loop test, download_queue.get(timeout=0.5) (queue.Empty
\* leaves the state as it is), and the skip of a piece already completed.
\* Lines 649-653 when the session is over.
WorkerGet(w) ==
    /\ wpc[w] = "loop"
    /\ IF ~is_running
       THEN /\ wpc' = [wpc EXCEPT ![w] = "stopped"]
            /\ peer_assignments' =
                   IF current_peer_id[w] # NoPeer
                   THEN [peer_assignments EXCEPT ![current_peer_id[w]] = NoWorker]
                   ELSE peer_assignments
            /\ UNCHANGED <<download_queue, request, requests>>
       ELSE /\ download_queue # <<>>
            /\ LET got == heappop_item(download_queue)
                   rest == heappop_rest(requests, download_queue)
               IN  /\ download_queue' = rest
                   /\ IF requests[got].piece_index \in completed_pieces
                      THEN /\ UNCHANGED <<request, wpc>>
                           /\ requests' = collect(requests, rest, request,
                                                  queue_copy)
                      ELSE /\ request' = [request EXCEPT ![w] = got]
                           /\ wpc' = [wpc EXCEPT ![w] = "assign"]
                           /\ UNCHANGED requests
            /\ UNCHANGED peer_assignments
    /\ UNCHANGED <<serve_vars, track_vars, file_vars, loop_vars, peer_conn, lock_vars, sessions, is_running, completed_pieces, active_downloads,
                   failed_pieces, connected_peers, peer_scores,
                   unavailable_pieces, download_history, peer_list,
                   main_vars, current_peer_id, wpeer_list, reconnect,
                   pending_pieces, queue_copy, piece_data, response,
                   env_vars, acks>>

\* An assignment that takes every peer no worker has.
assignment_greedy(w, peer_id) ==
    IF peer_assignments[peer_id] # NoWorker
    THEN IF peer_assignments[peer_id] # w THEN "requeue" ELSE "proceed"
    ELSE "take"

\* Lines 561-572, under the assignment lock: "proceed", "take" (the worker
\* becomes the peer's worker and proceeds) or "requeue".
assignment(w, peer_id) ==
    IF peer_assignments[peer_id] # NoWorker
    THEN IF peer_assignments[peer_id] # w THEN "requeue" ELSE "proceed"
    ELSE IF current_peer_id[w] = NoPeer THEN "take"
    ELSE IF current_peer_id[w] # peer_id THEN "requeue" ELSE "proceed"

WorkerAssign(w) ==
    /\ wpc[w] = "assign"
    /\ LET peer_id == ReqPeer(w)
           what == assignment(w, peer_id)
       IN  /\ IF what = "requeue"
              THEN /\ download_queue' = put(requests, download_queue, request[w])
                   /\ request' = [request EXCEPT ![w] = NoReq]
                   /\ wpc' = [wpc EXCEPT ![w] = "loop"]
              ELSE /\ wpc' = [wpc EXCEPT ![w] = "connect"]
                   /\ UNCHANGED <<download_queue, request>>
           /\ IF what = "take"
              THEN /\ peer_assignments' = [peer_assignments EXCEPT ![peer_id] = w]
                   /\ current_peer_id' = [current_peer_id EXCEPT ![w] = peer_id]
              ELSE UNCHANGED <<peer_assignments, current_peer_id>>
    /\ UNCHANGED <<serve_vars, track_vars, file_vars, loop_vars, peer_conn, lock_vars, sessions, is_running, requests, completed_pieces, active_downloads,
                   failed_pieces, connected_peers, peer_scores,
                   unavailable_pieces, download_history, peer_list,
                   main_vars, wpeer_list, reconnect, pending_pieces,
                   queue_copy, piece_data, response, env_vars, acks>>

\* _connect_to_peer, lines 359-394: what it leaves in connected_peers after
\* the handshake was answered with `status`.
connect_to_peer(sock, status) ==
    IF status = "success" THEN NewSocket ELSE sock

\* Lines 579-583: a turn of the reconnect loop that connects. The peer is
\* looked up in the worker's own peer_list; _connect_to_peer returns True
\* for a peer that is in connected_peers.
WorkerConnect(w) ==
    /\ wpc[w] = "connect"
    /\ locks_free(w)
    /\ reconnect[w] < RECONNECT_TIMEOUT
    /\ ReqPeer(w) \in wpeer_list[w]
    /\ connected_peers[ReqPeer(w)].open \/ reachable[ReqPeer(w)]
    /\ connected_peers' =
           IF connected_peers[ReqPeer(w)].open THEN connected_peers
           ELSE [connected_peers EXCEPT ![ReqPeer(w)] =
                    connect_to_peer(@, "success")]
    /\ wpc' = [wpc EXCEPT ![w] = "download"]
    /\ reconnect' = [reconnect EXCEPT ![w] = 0]
    /\ UNCHANGED <<serve_vars, track_vars, file_vars, loop_vars, peer_conn, lock_vars, sessions, is_running, download_queue, requests, completed_pieces,
                   active_downloads, failed_pieces, peer_scores,
                   peer_assignments, unavailable_pieces, download_history,
                   peer_list, main_vars, request, current_peer_id,
                   wpeer_list, pending_pieces, queue_copy, piece_data,
                   response, env_vars, acks>>

\* Lines 579-586: a turn that does not connect (the peer is not in the
\* worker's peer_list, or it does not accept the connection), and the
\* sleep of a second.
WorkerConnectFails(w) ==
    /\ wpc[w] = "connect"
    /\ locks_free(w)
    /\ reconnect[w] < RECONNECT_TIMEOUT
    /\ \/ ReqPeer(w) \notin wpeer_list[w]
       \/ ~connected_peers[ReqPeer(w)].open /\ ~reachable[ReqPeer(w)]
    /\ \E t \in (reconnect[w] + 1) .. RECONNECT_TIMEOUT :
           reconnect' = [reconnect EXCEPT ![w] = t]
    /\ UNCHANGED <<serve_vars, track_vars, file_vars, loop_vars, peer_conn, lock_vars, sessions, is_running, download_queue, requests, completed_pieces,
                   active_downloads, failed_pieces, connected_peers,
                   peer_scores, peer_assignments, unavailable_pieces,
                   download_history, peer_list, main_vars, wpc, request,
                   current_peer_id, wpeer_list, pending_pieces, queue_copy,
                   piece_data, response, env_vars, acks>>

\* Lines 371-376: the peer answers the handshake with an error status.
WorkerHandshakeRefused(w) ==
    /\ wpc[w] = "connect"
    /\ locks_free(w)
    /\ reconnect[w] < RECONNECT_TIMEOUT
    /\ ReqPeer(w) \in wpeer_list[w]
    /\ ~connected_peers[ReqPeer(w)].open
    /\ reachable[ReqPeer(w)]
    /\ faults < MaxFaults
    /\ faults' = faults + 1
    /\ connected_peers' = [connected_peers EXCEPT ![ReqPeer(w)] =
                              connect_to_peer(@, "error")]
    /\ IF connected_peers'[ReqPeer(w)].open
       THEN /\ wpc' = [wpc EXCEPT ![w] = "download"]
            /\ reconnect' = [reconnect EXCEPT ![w] = 0]
       ELSE /\ \E t \in (reconnect[w] + 1) .. RECONNECT_TIMEOUT :
                   reconnect' = [reconnect EXCEPT ![w] = t]
            /\ UNCHANGED wpc
    /\ UNCHANGED <<serve_vars, track_vars, file_vars, loop_vars, peer_conn, lock_vars, sessions, is_running, download_queue, requests, completed_pieces,
                   active_downloads, failed_pieces, peer_scores,
                   peer_assignments, unavailable_pieces, download_history,
                   peer_list, main_vars, request, current_peer_id,
                   wpeer_list, pending_pieces, queue_copy, piece_data,
                   response, reachable, acks>>

\* Lines 588-592: the window is over; _close_peer_connection.
WorkerGiveUp(w) ==
    /\ wpc[w] = "connect"
    /\ locks_free(w)
    /\ reconnect[w] >= RECONNECT_TIMEOUT
    /\ connected_peers' = [connected_peers EXCEPT ![ReqPeer(w)] = NoSock]
    /\ wpc' = [wpc EXCEPT ![w] = "evict"]
    /\ reconnect' = [reconnect EXCEPT ![w] = 0]
    /\ UNCHANGED <<serve_vars, track_vars, file_vars, loop_vars, peer_conn, lock_vars, sessions, is_running, download_queue, requests, completed_pieces,
                   active_downloads, failed_pieces, peer_scores,
                   peer_assignments, unavailable_pieces, download_history,
                   peer_list, main_vars, request, current_peer_id,
                   wpeer_list, pending_pieces, queue_copy,
                   piece_data, response, env_vars, acks>>

\* ------------------------------------------------------ _reassign_pieces
RECURSIVE requests_of(_, _, _)
requests_of(R, queue, peer_id) ==
    IF queue = <<>> THEN <<>>
    ELSE IF R[Head(queue)].peer_id = peer_id
         THEN <<Head(queue)>> \o requests_of(R, Tail(queue), peer_id)
         ELSE requests_of(R, Tail(queue), peer_id)

RECURSIVE requests_not_of(_, _, _)
requests_not_of(R, queue, peer_id) ==
    IF queue = <<>> THEN <<>>
    ELSE IF R[Head(queue)].peer_id # peer_id
         THEN <<Head(queue)>> \o requests_not_of(R, Tail(queue), peer_id)
         ELSE requests_not_of(R, Tail(queue), peer_id)

\* Lines 595-596 and 908-911: the dead peer leaves the worker's own
\* peer_list; pending_pieces are its requests in the queue, in list order.
ReassignPending(w) ==
    /\ wpc[w] = "evict"
    /\ locks_free(w)
    /\ wpeer_list' = [wpeer_list EXCEPT ![w] = @ \ {ReqPeer(w)}]
    /\ LET ids == requests_of(requests, download_queue, ReqPeer(w))
       IN  pending_pieces' = [pending_pieces EXCEPT ![w] =
               [k \in 1 .. Len(ids) |-> requests[ids[k]].piece_index]]
    /\ wpc' = [wpc EXCEPT ![w] = "reassign_copy"]
    /\ UNCHANGED <<serve_vars, track_vars, file_vars, loop_vars, peer_conn, lock_vars, sessions, is_running, download_queue, requests, completed_pieces,
                   active_downloads, failed_pieces, connected_peers,
                   peer_scores, peer_assignments, unavailable_pieces,
                   download_history, peer_list, main_vars, request,
                   current_peer_id, reconnect, queue_copy, piece_data,
                   response, env_vars, acks>>

\* Lines 914-917 read the heap list (list(self.download_queue.queue)) ...
ReassignCopy(w) ==
    /\ wpc[w] = "reassign_copy"
    /\ queue_copy' = [queue_copy EXCEPT ![w] = download_queue]
    /\ wpc' = [wpc EXCEPT ![w] = "reassign_filter"]
    /\ UNCHANGED <<serve_vars, track_vars, file_vars, loop_vars, peer_conn, lock_vars, sessions, is_running, download_queue, requests, completed_pieces,
                   active_downloads, failed_pieces, connected_peers,
                   peer_scores, peer_assignments, unavailable_pieces,
                   download_history, peer_list, main_vars, request,
                   current_peer_id, wpeer_list, reconnect, pending_pieces,
                   piece_data, response, env_vars, acks>>

\* ... and store the filtered copy as the heap list. The queue's own mutex
\* is not held: a get or put of another worker in between is undone.
ReassignFilter(w) ==
    /\ wpc[w] = "reassign_filter"
    /\ download_queue' = requests_not_of(requests, queue_copy[w], ReqPeer(w))
    /\ queue_copy' = [queue_copy EXCEPT ![w] = <<>>]
    /\ requests' = collect(requests, download_queue', request, queue_copy')
    /\ wpc' = [wpc EXCEPT ![w] = "reassign_loop"]
    /\ UNCHANGED <<serve_vars, track_vars, file_vars, loop_vars, peer_conn, lock_vars, sessions, is_running, completed_pieces, active_downloads,
                   failed_pieces, connected_peers, peer_scores,
                   peer_assignments, unavailable_pieces, download_history,
                   peer_list, main_vars, request, current_peer_id,
                   wpeer_list, reconnect, pending_pieces, piece_data,
                   response, env_vars, acks>>

\* Lines 923-946, one piece of pending_pieces; lines 951-952 when
\* _calculate_peer_scores raises: the rest of pending_pieces is left.
ReassignPiece(w) ==
    /\ wpc[w] = "reassign_loop"
    /\ IF pending_pieces[w] = <<>>
       THEN /\ wpc' = [wpc EXCEPT ![w] = "reset"]
            /\ UNCHANGED <<pending_pieces, requests, download_queue,
                           unavailable_pieces>>
       ELSE LET piece_index == Head(pending_pieces[w])
                active_peers == wpeer_list[w] \ {ReqPeer(w)}
                available_peers ==
                    {p \in active_peers : piece_index \in peer_list[p]}
                best_peer == max_by(available_peers,
                                    calculate_peer_scores(connected_peers))
                id == new_id(requests)
                R2 == [requests EXCEPT ![id] =
                          PieceRequest(piece_index, best_peer)]
            IN  IF available_peers = {}
                THEN /\ unavailable_pieces' = unavailable_pieces \cup {piece_index}
                     /\ pending_pieces' = [pending_pieces EXCEPT ![w] = Tail(@)]
                     /\ UNCHANGED <<wpc, requests, download_queue>>
                ELSE IF calculate_peer_scores_raises(completed_pieces)
                THEN /\ pending_pieces' = [pending_pieces EXCEPT ![w] = <<>>]
                     /\ wpc' = [wpc EXCEPT ![w] = "reset"]
                     /\ UNCHANGED <<requests, download_queue, unavailable_pieces>>
                ELSE /\ has_room(requests)
                     /\ requests' = R2
                     /\ download_queue' = put(R2, download_queue, id)
                     /\ pending_pieces' = [pending_pieces EXCEPT ![w] = Tail(@)]
                     /\ UNCHANGED <<wpc, unavailable_pieces>>
    /\ UNCHANGED <<serve_vars, track_vars, file_vars, loop_vars, peer_conn, lock_vars, sessions, is_running, completed_pieces, active_downloads,
                   failed_pieces, connected_peers, peer_scores,
                   peer_assignments, download_history, peer_list, main_vars,
                   request, current_peer_id, wpeer_list, reconnect,
                   queue_copy, piece_data, response, env_vars, acks>>

\* Lines 600-606: the worker gives its peer up; the request it holds is
\* not put back.
WorkerReset(w) ==
    /\ wpc[w] = "reset"
    /\ peer_assignments' =
           IF current_peer_id[w] # NoPeer
           THEN [peer_assignments EXCEPT ![current_peer_id[w]] = NoWorker]
           ELSE peer_assignments
    /\ current_peer_id' = [current_peer_id EXCEPT ![w] = NoPeer]
    /\ request' = [request EXCEPT ![w] = NoReq]
    /\ requests' = collect(requests, download_queue, request', queue_copy)
    /\ wpc' = [wpc EXCEPT ![w] = "loop"]
    /\ UNCHANGED <<serve_vars, track_vars, file_vars, loop_vars, peer_conn, lock_vars, sessions, is_running, download_queue, connected_peers, completed_pieces,
                   active_downloads, failed_pieces,
                   peer_scores, unavailable_pieces, download_history,
                   peer_list, main_vars, wpeer_list, reconnect,
                   pending_pieces, queue_copy, piece_data, response,
                   env_vars, acks>>

\* ------------------------------------------------------- _download_piece
\* What a peer may answer to request_piece: the piece data it sends (any
\* bytes), a response cut before its end, or an error.
Responses ==
    [kind : {"piece"}, data : Bytes]
        \cup {[kind |-> "truncated", data |-> NoData],
              [kind |-> "error", data |-> NoData]}

Correct(resp, piece_index) ==
    resp.kind = "piece" /\ resp.data = PieceContent(piece_index)

\* Lines 330-349: the bytes _download_piece returns, NoData for None.
received_piece(resp, piece_index) ==
    IF resp.kind # "piece" THEN NoData
    ELSE IF resp.data = 0 THEN NoData
    ELSE IF verify_piece(b64decode(b64encode(resp.data)), piece_index)
         THEN b64decode(b64encode(resp.data))
         ELSE NoData

\* Line 611, `if piece_data:`.
downloaded(data) == data # NoData /\ data # 0

\* _update_peer_score, lines 868-879, in units of 0.5.
update_peer_score_unfloored(current_score, success) ==
    IF success THEN current_score + 2 ELSE current_score - 1

update_peer_score(current_score, success) ==
    IF success
    THEN IF current_score + 2 < 20 THEN current_score + 2 ELSE 20
    ELSE IF current_score - 1 > 0 THEN current_score - 1 ELSE 0

\* Lines 609-615 and 626-628: _download_piece on the peer's socket with the
\* ACK of line 345, and the peer's score and history under the peer lock.
download(w, resp) ==
    LET data == received_piece(resp, ReqPiece(w))
    IN  /\ response' = [response EXCEPT ![w] = resp]
        /\ piece_data' = [piece_data EXCEPT ![w] = data]
        /\ acks' = IF data # NoData
                   THEN [acks EXCEPT ![ReqPiece(w)] = @ + 1]
                   ELSE acks
        /\ peer_scores' = [peer_scores EXCEPT ![ReqPeer(w)] =
                              update_peer_score(@, downloaded(data))]
        /\ download_history' =
               IF downloaded(data)
               THEN [download_history EXCEPT ![ReqPeer(w)] = @ \cup {ReqPiece(w)}]
               ELSE download_history
        /\ wpc' = [wpc EXCEPT ![w] = IF downloaded(data) THEN "success_piece"
                                     ELSE "fail_piece"]

\* The peer answers with the piece, or the socket is gone or dead.
WorkerDownload(w) ==
    /\ wpc[w] = "download"
    /\ locks_free(w)
    /\ LET sock == connected_peers[ReqPeer(w)]
       IN  IF sock.open /\ sock.alive
           THEN download(w, [kind |-> "piece",
                             data |-> PieceContent(ReqPiece(w))])
           ELSE download(w, NoResponse)
    /\ UNCHANGED <<serve_vars, track_vars, file_vars, loop_vars, peer_conn, lock_vars, sessions, is_running, download_queue, requests, completed_pieces,
                   active_downloads, failed_pieces, connected_peers,
                   peer_assignments, unavailable_pieces, peer_list,
                   main_vars, request, current_peer_id, wpeer_list,
                   reconnect, pending_pieces, queue_copy, env_vars>>

\* The peer answers with something else.
WorkerDownloadBad(w) ==
    /\ wpc[w] = "download"
    /\ locks_free(w)
    /\ connected_peers[ReqPeer(w)].open
    /\ connected_peers[ReqPeer(w)].alive
    /\ faults < MaxFaults
    /\ faults' = faults + 1
    /\ \E resp \in Responses :
        /\ ~Correct(resp, ReqPiece(w))
        /\ download(w, resp)
    /\ UNCHANGED <<serve_vars, track_vars, file_vars, loop_vars, peer_conn, lock_vars, sessions, is_running, download_queue, requests, completed_pieces,
                   active_downloads, failed_pieces, connected_peers,
                   peer_assignments, unavailable_pieces, peer_list,
                   main_vars, request, current_peer_id, wpeer_list,
                   reconnect, pending_pieces, queue_copy, reachable>>

\* Lines 618-619.
WorkerSuccessPiece(w) ==
    /\ wpc[w] = "success_piece"
    /\ completed_pieces' = completed_pieces \cup {ReqPiece(w)}
    /\ wpc' = [wpc EXCEPT ![w] = "success_store"]
    /\ UNCHANGED <<serve_vars, track_vars, file_vars, loop_vars, peer_conn, lock_vars, sessions, is_running, download_queue, requests, active_downloads,
                   failed_pieces, connected_peers, peer_scores,
                   peer_assignments, unavailable_pieces, download_history,
                   peer_list, main_vars, request, current_peer_id,
                   wpeer_list, reconnect, pending_pieces, queue_copy,
                   piece_data, response, env_vars, acks>>

\* Lines 622-623 and 637.
WorkerSuccessStore(w) ==
    /\ wpc[w] = "success_store"
    /\ active_downloads' = [active_downloads EXCEPT ![ReqPiece(w)] =
                               piece_data[w]]
    /\ request' = [request EXCEPT ![w] = NoReq]
    /\ requests' = collect(requests, download_queue, request', queue_copy)
    /\ piece_data' = [piece_data EXCEPT ![w] = NoData]
    /\ response' = [response EXCEPT ![w] = NoResponse]
    /\ wpc' = [wpc EXCEPT ![w] = "loop"]
    /\ UNCHANGED <<serve_vars, track_vars, file_vars, loop_vars, peer_conn, lock_vars, sessions, is_running, download_queue, completed_pieces,
                   failed_pieces, connected_peers, peer_scores,
                   peer_assignments, unavailable_pieces, download_history,
                   peer_list, main_vars, current_peer_id, wpeer_list,
                   reconnect, pending_pieces, queue_copy, env_vars, acks>>

\* _requeue_request, lines 438-442: the attempts of the request and
\* whether it is put back.
requeue_attempts(R, id) == [R EXCEPT ![id].attempts = @ + 1]

requeue_puts(R, id) == R[id].attempts + 1 < MAX_RETRIES

\* Lines 631-637.
WorkerFailPiece(w) ==
    /\ wpc[w] = "fail_piece"
    /\ failed_pieces' = [failed_pieces EXCEPT ![ReqPiece(w)] = @ + 1]
    /\ request' = [request EXCEPT ![w] = NoReq]
    /\ IF failed_pieces'[ReqPiece(w)] < MAX_RETRIES
       THEN LET R2 == requeue_attempts(requests, request[w])
            IN  /\ download_queue' =
                       IF requeue_puts(requests, request[w])
                       THEN put(R2, download_queue, request[w])
                       ELSE download_queue
                /\ requests' = collect(R2, download_queue', request',
                                       queue_copy)
       ELSE /\ UNCHANGED download_queue
            /\ requests' = collect(requests, download_queue, request',
                                   queue_copy)
    /\ piece_data' = [piece_data EXCEPT ![w] = NoData]
    /\ response' = [response EXCEPT ![w] = NoResponse]
    /\ wpc' = [wpc EXCEPT ![w] = "loop"]
    /\ UNCHANGED <<serve_vars, track_vars, file_vars, loop_vars, peer_conn, lock_vars, sessions, is_running, completed_pieces, active_downloads,
                   connected_peers, peer_scores, peer_assignments,
                   unavailable_pieces, download_history, peer_list,
                   main_vars, current_peer_id, wpeer_list, reconnect,
                   pending_pieces, queue_copy, env_vars, acks>>

\* ------------------------------------------- _manage_peer_connections
\* Lines 510-528: the peers not connected, up to the free connections.
RECURSIVE first_n(_, _)
first_n(S, n) ==
    IF n <= 0 \/ S = {} THEN {}
    ELSE LET m == CHOOSE x \in S : \A y \in S : x <= y
         IN  {m} \cup first_n(S \ {m}, n - 1)

ManagerConnect(p) ==
    /\ conn_manager = "running"
    /\ locks_free(NoWorker)
    /\ is_running
    /\ LET current_peers == {q \in Peers : connected_peers[q].open}
           needed_peers == MAX_PEER_CONNECTIONS - Cardinality(current_peers)
       IN  p \in first_n(Peers \ current_peers, needed_peers)
    /\ reachable[p]
    /\ connected_peers' = [connected_peers EXCEPT ![p] =
                              connect_to_peer(@, "success")]
    /\ UNCHANGED <<serve_vars, track_vars, file_vars, loop_vars, peer_conn, lock_vars, sessions, is_running, download_queue, requests, completed_pieces,
                   active_downloads, failed_pieces, peer_scores,
                   peer_assignments, unavailable_pieces, download_history,
                   peer_list, main_vars, wpc, request, current_peer_id,
                   wpeer_list, reconnect, pending_pieces, queue_copy,
                   piece_data, response, env_vars, acks>>

\* ----------------------------------------------------- the environment
\* A peer goes away: it accepts no connection and its socket is dead.
PeerDrop(p) ==
    /\ is_running
    /\ reachable[p]
    /\ faults < MaxFaults
    /\ faults' = faults + 1
    /\ reachable' = [reachable EXCEPT ![p] = FALSE]
    /\ connected_peers' = [connected_peers EXCEPT ![p].alive = FALSE]
    /\ UNCHANGED <<serve_vars, track_vars, file_vars, loop_vars, peer_conn, lock_vars, sessions, is_running, download_queue, requests, completed_pieces,
                   active_downloads, failed_pieces, peer_scores,
                   peer_assignments, unavailable_pieces, download_history,
                   peer_list, main_vars, wpc, request, current_peer_id,
                   wpeer_list, reconnect, pending_pieces, queue_copy,
                   piece_data, response, acks>>

\* -------------------------------------------------------- download_file
\* Lines 847-862: combine_pieces of the completed pieces in sorted order.
RECURSIVE sorted(_)
sorted(S) ==
    IF S = {} THEN <<>>
    ELSE LET m == CHOOSE x \in S : \A y \in S : x <= y
         IN  <<m>> \o sorted(S \ {m})

DownloadFile ==
    /\ mpc = "returned"
    /\ mpc' = "done"
    /\ LET order == sorted(completed_pieces)
           pieces == [k \in 1 .. Len(order) |-> active_downloads[order[k]]]
       IN  output' =
               IF result = "true" /\ pieces # <<>>
                  /\ \A k \in 1 .. Len(pieces) : downloaded(pieces[k])
               THEN pieces ELSE output
    /\ UNCHANGED <<serve_vars, track_vars, file_vars, loop_vars, peer_conn, lock_vars, sessions, is_running, download_queue, requests, completed_pieces,
                   active_downloads, failed_pieces, connected_peers,
                   peer_scores, peer_assignments, unavailable_pieces,
                   download_history, peer_list, result, wpc, request,
                   current_peer_id, wpeer_list, reconnect, pending_pieces,
                   queue_copy, piece_data, response, env_vars, acks>>

\* ----------------------------------------------------------- the directory
\* The store of the tracker (Database) and of the peers (PeerDatabase),
\* taken as one directory with the tables peers, torrents and files. A
\* table is a list of documents: insert appends, get returns the first
\* document that matches.
Hashes == 1 .. NumTorrents
NoHash == 0
\* The indices an update_pieces request may carry; NumPieces is out of range.
Indices == 0 .. NumPieces
PieceLists == {{0}, {NumPieces}}
Nodes == 1 .. NumNodes
\* (ip, port): what a record is added with, and what a node comes back with.
OldAddr == 1
NewAddr == 2
NoRow == 0

\* table.get(Query()[field] == key): the first document that matches.
first_row(table, field, key) ==
    IF \E k \in DOMAIN table : table[k][field] = key
    THEN CHOOSE k \in DOMAIN table :
             /\ table[k][field] = key
             /\ \A j \in 1 .. (k - 1) : table[j][field] # key
    ELSE NoRow

\* Database.get_peer / PeerDatabase.get_peer: the index of the record.
get_peer(table, peer_id) == first_row(table, "peer_id", peer_id)
\* Database.get_torrent.
get_torrent(table, info_hash) ==
    first_row(table, "info_hash", info_hash)
\* Database.get_file.
get_file(table, metainfo_id) ==
    first_row(table, "metainfo_id", metainfo_id)

\* Database.add_peer, add_torrent, add_file: TinyDB's insert.
insert(table, document) == Append(table, document)
add_file(table, file_data) == insert(table, file_data)

\* Database.update_peer_pieces and Database.update_file are called by the
\* tracker and are not defined in db.py; they are the store's writes of a
\* peer's piece_info and of a file entry: every document with the key is
\* written, as Database.update_file_peers and update_peer_stats write.
update_peer_pieces(table, peer_id, piece_info_list) ==
    [k \in DOMAIN table |->
        IF table[k].peer_id = peer_id
        THEN [table[k] EXCEPT !.piece_info = piece_info_list]
        ELSE table[k]]
update_file(table, metainfo_id, file_entry) ==
    [k \in DOMAIN table |->
        IF table[k].metainfo_id = metainfo_id THEN file_entry ELSE table[k]]

\* PeerDatabase.update_peer_connection: update_one writes the first match.
update_peer_connection(table, peer_id, addr) ==
    LET k == get_peer(table, peer_id)
    IN  IF k = NoRow THEN table ELSE [table EXCEPT ![k].addr = addr]

\* generate_pieces: the SHA-1 digest of every piece of the file.
generate_pieces == [i \in Pieces |-> sha1(PieceContent(i))]

NoUpdate == [pc |-> "idle", torrent_hash |-> NoHash, pieces |-> {},
             updated_pieces |-> {}, file_entry |-> <<>>]
NoRegistration == [pc |-> "start", peer_id |-> NoPeer,
                   change_ip_port |-> FALSE]
NoTrackerClient == [state |-> "none", peer_id |-> NoPeer]
NoAnswer == [type |-> "none", status |-> "none", peers |-> {}, pieces |-> {}]
LeecherIdle == [pc |-> "start", conn |-> NoConn, peers |-> {}]

TrackIdle ==
    /\ peers = <<>>
    /\ torrents = <<>>
    /\ files = <<>>
    /\ tracker_socket = [c \in Conns |-> NoTrackerClient]
    /\ tracker_peers = [p \in Peers |-> NoConn]
    /\ tracker_sent = [c \in Conns |-> NoAnswer]
    /\ update = [c \in Conns |-> NoUpdate]
    /\ register = [n \in Nodes |-> NoRegistration]
    /\ leecher = LeecherIdle

\* -------------------------------------------------------------- the files
\* Config.PIECE_LENGTH.
PIECE_LENGTH == 32 * 1024

\* A file is its name and its pieces of PIECE_LENGTH bytes each, from no
\* piece at all (the empty file) to NumPieces pieces.
FileNames == {"a.bin", "b.bin"}
PieceBytes == 1 .. NumPieces
InputFiles ==
    [name : FileNames,
     pieces : UNION {[1 .. n -> PieceBytes] : n \in 0 .. NumPieces}]
PublishedFile ==
    [name |-> "a.bin", pieces |-> [k \in 1 .. NumPieces |-> PieceContent(k - 1)]]

\* A str and the bytes it encodes to (str.encode()).
str(text) == [type |-> "str", text |-> text]
encode(s) == [s EXCEPT !.type = "bytes"]
decode(b) == [b EXCEPT !.type = "str"]

\* A byte string made of SHA-1 digests: b''.join(pieces), and its base-64
\* text. The base-64 text of b'' is b''; of any other string it is another
\* string.
join(digests) == [form |-> "raw", digests |-> digests]
base64_b64encode(b) ==
    IF b.digests = <<>> THEN b ELSE [b EXCEPT !.form = "b64"]
base64_b64decode(text) == [text EXCEPT !.form = "raw"]

\* bencodepy.encode of an info dictionary and bencodepy.decode of it: the
\* encoding is canonical (keys in sorted order), and a str is encoded as
\* the bytes it encodes to, so the encoding is the dictionary with its
\* strings as bytes.
bencode(info) ==
    [info EXCEPT !.name = IF @.type = "str" THEN encode(@) ELSE @]
bdecode(encoded) == encoded

\* hashlib.sha1(...).hexdigest() of an encoded dictionary, injective.
hexdigest(encoded) == [sha1 |-> encoded]

\* generate_pieces(file_path, piece_length): the digest of every piece.
generate_pieces_of(file) ==
    [k \in 1 .. Len(file.pieces) |-> sha1(file.pieces[k])]

getsize(file) == Len(file.pieces) * PIECE_LENGTH

NotUploaded == [returned |-> "none", info_hash |-> hexdigest(<<>>)]
NoTorrentFile == [written |-> FALSE, info |-> <<>>, info_hash |-> hexdigest(<<>>)]
NoTorrentData == [read |-> FALSE, info_hash |-> hexdigest(<<>>), info |-> <<>>]
NoDownload == [returned |-> "none", requested |-> {}, output |-> <<>>,
               written |-> FALSE]

FileIdle ==
    /\ input_file = PublishedFile
    /\ uploaded = NotUploaded
    /\ output_file = NoTorrentFile
    /\ torrent_data = NoTorrentData
    /\ file_download = NoDownload

\* The connection manager and the accept loop are not started.
\* No lock is held, no thread of a session runs, and the node is at its
\* first download.
LoopIdle ==
    /\ conn_manager = "idle"
    /\ server_loop = "idle"
    /\ lock_holder = [l \in Locks |-> NoThread]
    /\ thread_pc = [t \in Threads |-> "idle"]
    /\ thread_peer = [t \in Threads |-> NoPeer]
    /\ to_connect = {}
    /\ sockets = [c \in Conns |-> NoSocket]
    /\ sessions = 1

\* A connection between a leecher and a serving peer on which nothing was
\* sent yet: the bytes in flight each way, where the two ends are, and
\* the requests sent, answered and taken for an ACK so far.
NoTraffic ==
    [to_seeder |-> <<>>, to_leecher |-> <<>>, seeder |-> "recv",
     leecher |-> "idle", piece_index |-> NoPiece, requested |-> 0,
     answered |-> 0, swallowed |-> 0,
     store |-> [i \in Pieces |-> NoData]]

ConnIdle == peer_conn = NoTraffic

\* ------------------------------------------------- the download session
ServeIdle ==
    /\ client_socket = [c \in Conns |-> NoClient]
    /\ inbound_peers = [p \in Peers |-> NoConn]
    /\ piece_info = {}
    /\ sent = [c \in Conns |-> NothingSent]

Init ==
    SchedInit /\ ServeIdle /\ TrackIdle /\ FileIdle /\ LoopIdle /\ ConnIdle

Worker(w) ==
    \/ WorkerGet(w)
    \/ WorkerAssign(w)
    \/ WorkerConnect(w)
    \/ WorkerConnectFails(w)
    \/ WorkerHandshakeRefused(w)
    \/ WorkerGiveUp(w)
    \/ ReassignPending(w)
    \/ ReassignCopy(w)
    \/ ReassignFilter(w)
    \/ ReassignPiece(w)
    \/ WorkerReset(w)
    \/ WorkerDownload(w)
    \/ WorkerDownloadBad(w)
    \/ WorkerSuccessPiece(w)
    \/ WorkerSuccessStore(w)
    \/ WorkerFailPiece(w)

Main == StartDownload \/ MainWait \/ DownloadFile

Next ==
    \/ Main
    \/ \E w \in Workers : Worker(w)
    \/ \E p \in Peers : ManagerConnect(p)
    \/ \E p \in Peers : PeerDrop(p)

Spec == Init /\ [][Next]_vars

\* ------------------------------------------------------ the serving peer
\* start_peer_server with the database the peer was started on: no
\* connection yet.
ServeInit ==
    /\ SchedInit
    /\ client_socket = [c \in Conns |-> NoClient]
    /\ inbound_peers = [p \in Peers |-> NoConn]
    /\ piece_info \in SUBSET Pieces
    /\ sent = [c \in Conns |-> NothingSent]
    /\ TrackIdle
    /\ FileIdle
    /\ LoopIdle
    /\ ConnIdle

\* Lines 780-793: accept, and a thread running _handle_peer_connection.
Accept(c) ==
    /\ client_socket[c].state = "none"
    /\ client_socket' = [client_socket EXCEPT ![c].state = "open"]
    /\ UNCHANGED <<sched_vars, track_vars, file_vars, loop_vars, peer_conn, lock_vars, sessions, inbound_peers, piece_info, sent>>

\* _handle_peer_request, lines 661-676: what a handshake is answered with.
handshake_status(peer_id) == IF peer_id # NoPeer THEN "success" ELSE "error"

\* Lines 661-676: a handshake request; peer_id is NoPeer when it has none.
HandleHandshake(c, peer_id) ==
    /\ client_socket[c].state = "open"
    /\ sent' = [sent EXCEPT ![c] = [type |-> "handshake",
                                    status |-> handshake_status(peer_id),
                                    piece_index |-> NoPiece]]
    /\ IF handshake_status(peer_id) = "success"
       THEN /\ inbound_peers' = [inbound_peers EXCEPT ![peer_id] = c]
            /\ client_socket' = [client_socket EXCEPT ![c].hs = TRUE]
       ELSE UNCHANGED <<inbound_peers, client_socket>>
    /\ UNCHANGED <<sched_vars, track_vars, file_vars, loop_vars, peer_conn, lock_vars, sessions, piece_info>>

\* Lines 678-721: what a request_piece is answered with, from
\* db.get_piece_content alone.
piece_response(store, piece_index) ==
    IF piece_index \in store
    THEN [type |-> "request_piece", status |-> "success",
          piece_index |-> piece_index]
    ELSE [type |-> "request_piece", status |-> "error", piece_index |-> NoPiece]

\* Lines 678-721: a request_piece request, on any connection.
HandleRequestPiece(c, piece_index) ==
    /\ client_socket[c].state = "open"
    /\ sent' = [sent EXCEPT ![c] = piece_response(piece_info, piece_index)]
    /\ UNCHANGED <<sched_vars, track_vars, file_vars, loop_vars, peer_conn, lock_vars, sessions, client_socket, inbound_peers, piece_info>>

\* Lines 732-735: the client is gone, recv returns no data.
ClientCloses(c) ==
    /\ client_socket[c].state = "open"
    /\ client_socket' = [client_socket EXCEPT ![c].state = "closed"]
    /\ UNCHANGED <<sched_vars, track_vars, file_vars, loop_vars, peer_conn, lock_vars, sessions, inbound_peers, piece_info, sent>>

ServeNext ==
    \/ \E c \in Conns : Accept(c)
    \/ \E c \in Conns, peer_id \in Peers \cup {NoPeer} : HandleHandshake(c, peer_id)
    \/ \E c \in Conns, piece_index \in Pieces : HandleRequestPiece(c, piece_index)
    \/ \E c \in Conns : ClientCloses(c)

ServeSpec == ServeInit /\ [][ServeNext]_vars

\* ------------------------------------------------------------ the tracker
\* What a client may send: a JSON object with some of the fields, or bytes
\* that are no JSON object. The info_hash field of a request is a string:
\* the hex digest of a torrent, or the path of a torrent file.
Ref(kind, hash) == [kind |-> kind, hash |-> hash]
NoRef == Ref("none", NoHash)
Message(type, peer_id, info_hash, pieces) ==
    [type |-> type, malformed |-> FALSE, peer_id |-> peer_id,
     info_hash |-> info_hash, pieces |-> pieces]
Garbage == [type |-> "none", malformed |-> TRUE, peer_id |-> NoPeer,
            info_hash |-> NoRef, pieces |-> {}]
Handshake(peer_id) == Message("handshake", peer_id, NoRef, {})
FirstMessages == {Handshake(p) : p \in Peers \cup {NoPeer}} \cup {Garbage}
Refs == {Ref(kind, h) : kind \in {"digest", "path"}, h \in Hashes}
Requests ==
    {Message("get_peers", NoPeer, r, {}) : r \in Refs}
    \cup {Message("get_pieces", NoPeer, Ref("path", h), {}) : h \in Hashes}
    \cup {Message("update_pieces", NoPeer, Ref("digest", h), l) :
              h \in Hashes, l \in PieceLists}
    \cup {Message("unknown", NoPeer, NoRef, {}), Garbage}

Answer(type, status, peer_ids, pieces) ==
    [type |-> type, status |-> status, peers |-> peer_ids, pieces |-> pieces]

\* Tracker._get_info_hash opens its argument as a torrent file: the hash of
\* the file at that path, NoHash (None) for a string that names no file.
get_info_hash(torrent_file) ==
    IF torrent_file.kind = "path" THEN torrent_file.hash ELSE NoHash

\* get_peer_from_file, lines 105-134: the peer_ids of the list returned.
get_peer_from_file(torrent_file) ==
    LET info_hash == get_info_hash(torrent_file)
        k == get_file(files, info_hash)
    IN  IF info_hash = NoHash \/ k = NoRow THEN {}
        ELSE {files[k].peers_info[j].peer_id :
                  j \in {j \in DOMAIN files[k].peers_info :
                      get_peer(peers, files[k].peers_info[j].peer_id) # NoRow}}

\* get_new_piece, lines 136-165.
get_new_piece(torrent_file, peer_id) ==
    LET info_hash == get_info_hash(torrent_file)
        t == get_torrent(torrents, info_hash)
        k == get_peer(peers, peer_id)
    IN  IF info_hash = NoHash \/ t = NoRow \/ k = NoRow THEN {}
        ELSE Pieces \ {e.index : e \in {e \in peers[k].piece_info :
                                           e.metainfo_id = info_hash}}

\* run_peer_server, lines 182-190: accept, and a handler thread.
TrackerAccept(c) ==
    /\ tracker_socket[c].state = "none"
    /\ tracker_socket' = [tracker_socket EXCEPT ![c].state = "accepted"]
    /\ UNCHANGED <<sched_vars, serve_vars, file_vars, loop_vars, peer_conn, lock_vars, sessions, peers, torrents, files,
                   tracker_peers, tracker_sent, update,
                   register, leecher>>

\* The finally of _handle_peer_connection, lines 269-274.
disconnect(connected, peer_id) ==
    IF peer_id # NoPeer THEN [connected EXCEPT ![peer_id] = NoConn]
    ELSE connected

\* _handle_peer_connection, lines 233-248 and 267-274: the first message.
\* Nothing is sent. Without a peer_id the connection is closed; when the
\* message is no JSON object, peer_id is unbound in the finally, the
\* handler ends there and the socket is left as it is.
ReceiveFirst(c, msg) ==
    /\ tracker_socket[c].state = "accepted"
    /\ IF msg.malformed
       THEN /\ tracker_socket' = [tracker_socket EXCEPT ![c].state = "abandoned"]
            /\ UNCHANGED tracker_peers
       ELSE IF msg.peer_id = NoPeer
       THEN /\ tracker_socket' = [tracker_socket EXCEPT ![c].state = "closed"]
            /\ UNCHANGED tracker_peers
       ELSE /\ tracker_socket' = [tracker_socket EXCEPT
                                     ![c].state = "serving",
                                     ![c].peer_id = msg.peer_id]
            /\ tracker_peers' = [tracker_peers EXCEPT ![msg.peer_id] = c]
    /\ UNCHANGED <<sched_vars, serve_vars, file_vars, loop_vars, peer_conn, lock_vars, sessions, peers, torrents, files,
                   tracker_sent, update, register>>

FirstMessage(c, msg) ==
    /\ ReceiveFirst(c, msg)
    /\ UNCHANGED leecher

\* _handle_peer_request, lines 276-316, but for update_pieces.
handle_peer_request(peer_id, req) ==
    IF req.type = "get_peers"
    THEN Answer("get_peers", "success", get_peer_from_file(req.info_hash), {})
    ELSE IF req.type = "get_pieces"
    THEN Answer("get_pieces", "success", {},
                get_new_piece(req.info_hash, peer_id))
    ELSE Answer(req.type, "error", {}, {})

\* Lines 251-265: a request in the loop of the handler. Bytes that are no
\* JSON raise at line 256: the handler leaves the loop and closes.
ReceiveRequest(c, req) ==
    /\ tracker_socket[c].state = "serving"
    /\ update[c].pc = "idle"
    /\ IF req.malformed
       THEN /\ tracker_socket' = [tracker_socket EXCEPT
                                     ![c].state = "closed",
                                     ![c].peer_id = NoPeer]
            /\ tracker_peers' = disconnect(tracker_peers, tracker_socket[c].peer_id)
            /\ tracker_sent' = [tracker_sent EXCEPT ![c] = NoAnswer]
            /\ UNCHANGED update
       ELSE IF req.type = "update_pieces"
       THEN /\ update' = [update EXCEPT ![c] =
                  [NoUpdate EXCEPT !.pc = "get_peer",
                                   !.torrent_hash = req.info_hash.hash,
                                   !.pieces = req.pieces]]
            /\ tracker_sent' = [tracker_sent EXCEPT ![c] = NoAnswer]
            /\ UNCHANGED <<tracker_socket, tracker_peers>>
       ELSE /\ tracker_sent' = [tracker_sent EXCEPT ![c] =
                  handle_peer_request(tracker_socket[c].peer_id, req)]
            /\ UNCHANGED <<tracker_socket, tracker_peers, update>>
    /\ UNCHANGED <<sched_vars, serve_vars, file_vars, loop_vars, peer_conn, lock_vars, sessions, peers, torrents, files, register>>

Request(c, req) ==
    /\ leecher.conn # c
    /\ ReceiveRequest(c, req)
    /\ UNCHANGED leecher

\* Lines 252-254: the client has closed, recv returns no data.
TrackerClientCloses(c) ==
    /\ tracker_socket[c].state = "serving"
    /\ update[c].pc = "idle"
    /\ leecher.conn = c => leecher.pc \in {"failed", "done"}
    /\ tracker_socket' = [tracker_socket EXCEPT ![c].state = "closed",
                                                ![c].peer_id = NoPeer]
    /\ tracker_peers' = disconnect(tracker_peers, tracker_socket[c].peer_id)
    /\ tracker_sent' = [tracker_sent EXCEPT ![c] = NoAnswer]
    /\ UNCHANGED <<sched_vars, serve_vars, file_vars, loop_vars, peer_conn, lock_vars, sessions, peers, torrents, files,
                   update, register, leecher>>

\* _update_peer_pieces, lines 321-336: the peer is read and its new
\* piece_info is built; an unknown peer ends the update.
new_piece_info(piece_info_list, torrent_hash, pieces) ==
    {e \in piece_info_list : e.metainfo_id # torrent_hash}
    \cup {[metainfo_id |-> torrent_hash, index |-> i, piece |-> NoData] :
              i \in pieces}

\* Line 304: the response to update_pieces, whatever the update did.
UpdateDone(c) ==
    /\ update' = [update EXCEPT ![c] = NoUpdate]
    /\ tracker_sent' = [tracker_sent EXCEPT ![c] =
           Answer("update_pieces", "success", {}, {})]

UpdateGetPeer(c) ==
    /\ update[c].pc = "get_peer"
    /\ LET k == get_peer(peers, tracker_socket[c].peer_id)
       IN  IF k = NoRow
           THEN UpdateDone(c)
           ELSE /\ update' = [update EXCEPT
                       ![c].pc = "put_peer",
                       ![c].updated_pieces =
                           new_piece_info(peers[k].piece_info,
                               update[c].torrent_hash, update[c].pieces)]
                /\ UNCHANGED tracker_sent
    /\ UNCHANGED <<sched_vars, serve_vars, file_vars, loop_vars, peer_conn, lock_vars, sessions, peers, torrents, files,
                   tracker_socket, tracker_peers, register,
                   leecher>>

\* Line 338.
UpdatePutPeer(c) ==
    /\ update[c].pc = "put_peer"
    /\ peers' = update_peer_pieces(peers, tracker_socket[c].peer_id,
                                   update[c].updated_pieces)
    /\ update' = [update EXCEPT ![c].pc = "get_file"]
    /\ UNCHANGED <<sched_vars, serve_vars, file_vars, loop_vars, peer_conn, lock_vars, sessions, torrents, files, tracker_socket,
                   tracker_peers, tracker_sent, register,
                   leecher>>

\* Lines 343-354, and Database.update_file_peers lines 103-115: the peer's
\* entry of peers_info is replaced, or one is appended.
set_file_peer(peers_info, peer_id, pieces) ==
    LET j == first_row(peers_info, "peer_id", peer_id)
    IN  IF j # NoRow THEN [peers_info EXCEPT ![j].pieces = pieces]
        ELSE Append(peers_info, [peer_id |-> peer_id, pieces |-> pieces])

\* Lines 341-354: the file entry is read and changed in the handler.
UpdateGetFile(c) ==
    /\ update[c].pc = "get_file"
    /\ LET k == get_file(files, update[c].torrent_hash)
       IN  IF k = NoRow
           THEN UpdateDone(c)
           ELSE /\ update' = [update EXCEPT
                       ![c].pc = "put_file",
                       ![c].file_entry = <<[files[k] EXCEPT !.peers_info =
                           set_file_peer(@, tracker_socket[c].peer_id,
                                         update[c].pieces)]>>]
                /\ UNCHANGED tracker_sent
    /\ UNCHANGED <<sched_vars, serve_vars, file_vars, loop_vars, peer_conn, lock_vars, sessions, peers, torrents, files,
                   tracker_socket, tracker_peers, register,
                   leecher>>

\* Line 356, and the response of line 304.
UpdatePutFile(c) ==
    /\ update[c].pc = "put_file"
    /\ files' = update_file(files, update[c].torrent_hash,
                            update[c].file_entry[1])
    /\ UpdateDone(c)
    /\ UNCHANGED <<sched_vars, serve_vars, file_vars, loop_vars, peer_conn, lock_vars, sessions, peers, torrents, tracker_socket,
                   tracker_peers, register, leecher>>

\* upload_file, lines 54-103, of the file whose info hash is info_hash.
uploaded_piece_info(piece_info_list, info_hash) ==
    piece_info_list
    \cup {[metainfo_id |-> info_hash, index |-> i,
           piece |-> generate_pieces[i]] : i \in Pieces}

Upload(info_hash, peer_id) ==
    /\ Len(torrents) < MaxRows
    /\ torrents' = insert(torrents,
           [info_hash |-> info_hash, pieces |-> generate_pieces])
    /\ files' = add_file(files,
           [metainfo_id |-> info_hash,
            peers_info |-> <<[peer_id |-> peer_id, pieces |-> Pieces]>>])
    /\ LET k == get_peer(peers, peer_id)
       IN  IF k = NoRow THEN UNCHANGED peers
           ELSE peers' = update_peer_pieces(peers, peer_id,
                    uploaded_piece_info(peers[k].piece_info, info_hash))
    /\ UNCHANGED <<sched_vars, serve_vars, file_vars, loop_vars, peer_conn, lock_vars, sessions, tracker_socket, tracker_peers,
                   tracker_sent, update, register, leecher>>

PeerRecord(peer_id, addr, last_seen) ==
    [peer_id |-> peer_id, addr |-> addr, piece_info |-> {},
     last_seen |-> last_seen]

\* Database.add_peer, db.py lines 16-42: a record with last_seen.
AddPeer(peer_id) ==
    /\ Len(peers) < MaxRows
    /\ peers' = insert(peers, PeerRecord(peer_id, OldAddr, TRUE))
    /\ UNCHANGED <<sched_vars, serve_vars, file_vars, loop_vars, peer_conn, lock_vars, sessions, torrents, files, tracker_socket,
                   tracker_peers, tracker_sent, update,
                   register, leecher>>

\* Database.remove_inactive_peers, db.py lines 119-128, from the cleanup
\* thread: the records in `inactive` were seen too long ago. A record
\* without last_seen raises in is_inactive and nothing is removed.
RECURSIVE remove_rows(_, _, _)
remove_rows(table, rows, k) ==
    IF k > Len(table) THEN <<>>
    ELSE (IF k \in rows THEN <<>> ELSE <<table[k]>>)
             \o remove_rows(table, rows, k + 1)

remove_inactive_peers(table, inactive) ==
    IF \E k \in DOMAIN table : ~table[k].last_seen THEN table
    ELSE remove_rows(table, inactive, 1)

Cleanup(inactive) ==
    /\ peers' = remove_inactive_peers(peers, inactive)
    /\ peers' # peers
    /\ UNCHANGED <<sched_vars, serve_vars, file_vars, loop_vars, peer_conn, lock_vars, sessions, torrents, files, tracker_socket,
                   tracker_peers, tracker_sent, update,
                   register, leecher>>

\* PeerNode._register_peer, lines 90-91: the node looks its peer_id up.
RegisterGet(n, peer_id, change_ip_port) ==
    /\ register[n].pc = "start"
    /\ register' = [register EXCEPT ![n] =
           [pc |-> IF get_peer(peers, peer_id) # NoRow
                   THEN "found" ELSE "missing",
            peer_id |-> peer_id,
            change_ip_port |-> change_ip_port]]
    /\ UNCHANGED <<sched_vars, serve_vars, file_vars, loop_vars, peer_conn, lock_vars, sessions, peers, torrents, files,
                   tracker_socket, tracker_peers, tracker_sent,
                   update, leecher>>

\* Lines 92-110: the connection of a known peer is updated when asked
\* for; a new peer is added (PeerDatabase.add_peer: insert_one).
RegisterPut(n) ==
    /\ register[n].pc \in {"found", "missing"}
    /\ register[n].pc = "missing" => Len(peers) < MaxRows
    /\ peers' =
         IF register[n].pc = "missing"
         THEN insert(peers, PeerRecord(register[n].peer_id, NewAddr, FALSE))
         ELSE IF register[n].change_ip_port
         THEN update_peer_connection(peers, register[n].peer_id, NewAddr)
         ELSE peers
    /\ register' = [register EXCEPT ![n].pc = "done"]
    /\ UNCHANGED <<sched_vars, serve_vars, file_vars, loop_vars, peer_conn, lock_vars, sessions, torrents, files, tracker_socket,
                   tracker_peers, tracker_sent, update,
                   leecher>>

\* PeerNode._update_file_info, lines 883-901: $addToSet of the entry
\* {peer_id, pieces} to peers_info of the first file entry of info_hash.
add_to_set(peers_info, entry) ==
    IF \E j \in DOMAIN peers_info : peers_info[j] = entry THEN peers_info
    ELSE Append(peers_info, entry)

update_file_info(table, info_hash, peer_id, completed) ==
    LET k == get_file(table, info_hash)
    IN  IF k = NoRow THEN table
        ELSE [table EXCEPT ![k].peers_info =
                 add_to_set(@, [peer_id |-> peer_id, pieces |-> completed])]

\* Line 170: called when every needed piece is completed.
UpdateFileInfo(info_hash, peer_id) ==
    /\ files' = update_file_info(files, info_hash, peer_id, needed_pieces)
    /\ files' # files
    /\ UNCHANGED <<sched_vars, serve_vars, file_vars, loop_vars, peer_conn, lock_vars, sessions, peers, torrents, tracker_socket,
                   tracker_peers, tracker_sent, update,
                   register, leecher>>

\* request_peers_from_tracker, lines 448-457: the leecher connects and
\* sends its handshake, which the handler of the connection receives.
LeecherHandshake(c, peer_id) ==
    /\ leecher.pc = "start"
    /\ ReceiveFirst(c, Handshake(peer_id))
    /\ leecher' = [leecher EXCEPT !.pc = "wait_handshake", !.conn = c]

\* Lines 459-500: the leecher reads the response to its handshake (the
\* recv times out after SOCKET_TIMEOUT when there is none) and sends
\* get_peers after a success only; then it reads the list.
LeecherRecv ==
    LET c == leecher.conn
    IN  /\ leecher.pc \in {"wait_handshake", "wait_peers"}
        /\ IF leecher.pc = "wait_handshake"
           THEN IF tracker_sent[c].status = "success"
                THEN /\ ReceiveRequest(c, Message("get_peers", NoPeer,
                                                  Ref("digest", 1), {}))
                     /\ leecher' = [leecher EXCEPT !.pc = "wait_peers"]
                ELSE /\ leecher' = [leecher EXCEPT !.pc = "failed"]
                     /\ UNCHANGED <<sched_vars, serve_vars, file_vars, loop_vars, peer_conn, lock_vars, sessions, peers, torrents,
                            files, tracker_socket, tracker_peers,
                            tracker_sent, update, register>>
           ELSE /\ leecher' = [leecher EXCEPT
                       !.pc = "done",
                       !.peers = IF tracker_sent[c].status = "success"
                                 THEN tracker_sent[c].peers ELSE {}]
                /\ UNCHANGED <<sched_vars, serve_vars, file_vars, loop_vars, peer_conn, lock_vars, sessions, peers, torrents,
                       files, tracker_socket, tracker_peers, tracker_sent, update, register>>

\* The tracker serving its connections, over a directory in which a file
\* is uploaded once and each peer is added once.
TrackerNext ==
    \/ \E c \in Conns : TrackerAccept(c)
    \/ \E c \in Conns, msg \in FirstMessages : FirstMessage(c, msg)
    \/ \E c \in Conns, req \in Requests : Request(c, req)
    \/ \E c \in Conns : TrackerClientCloses(c)
    \/ \E c \in Conns : UpdateGetPeer(c)
    \/ \E c \in Conns : UpdatePutPeer(c)
    \/ \E c \in Conns : UpdateGetFile(c)
    \/ \E c \in Conns : UpdatePutFile(c)
    \/ \E info_hash \in Hashes, peer_id \in Peers :
           torrents = <<>> /\ Upload(info_hash, peer_id)
    \/ \E peer_id \in Peers :
           get_peer(peers, peer_id) = NoRow /\ AddPeer(peer_id)

TrackerSpec == Init /\ [][TrackerNext]_vars

\* The tracker, and leechers that write the file entry themselves when
\* their download is complete.
AnnounceNext ==
    \/ TrackerNext
    \/ \E info_hash \in Hashes, peer_id \in Peers :
           UpdateFileInfo(info_hash, peer_id)

AnnounceSpec == Init /\ [][AnnounceNext]_vars

\* A leecher asking the tracker for peers, over a directory in which
\* peers are added.
LeecherNext ==
    \/ \E c \in Conns : TrackerAccept(c)
    \/ \E c \in Conns, peer_id \in Peers : LeecherHandshake(c, peer_id)
    \/ LeecherRecv
    \/ \E c \in Conns : TrackerClientCloses(c)
    \/ \E c \in Conns, msg \in FirstMessages : FirstMessage(c, msg)
    \/ \E peer_id \in Peers : AddPeer(peer_id)

LeecherSpec == Init /\ [][LeecherNext]_vars

\* The directory under the operations that are no request of a
\* connection: uploads, peers added and removed, and the leechers' writes.
DirectoryNext ==
    \/ \E info_hash \in Hashes, peer_id \in Peers : Upload(info_hash, peer_id)
    \/ \E peer_id \in Peers : AddPeer(peer_id)
    \/ \E inactive \in SUBSET (1 .. MaxRows) : Cleanup(inactive)
    \/ \E info_hash \in Hashes, peer_id \in Peers :
           UpdateFileInfo(info_hash, peer_id)

DirectorySpec == Init /\ [][DirectoryNext]_vars

\* The nodes that register, each constructing its PeerNode.
RegisterNext ==
    \/ \E n \in Nodes, peer_id \in Peers, change_ip_port \in BOOLEAN :
           RegisterGet(n, peer_id, change_ip_port)
    \/ \E n \in Nodes : RegisterPut(n)

RegisterSpec == Init /\ [][RegisterNext]_vars

\* ---------------------------------------------------- the torrent files
\* Tracker._generate_info_hash, lines 220-229: pieces are joined raw.
tracker_generate_info_hash(file_name, pieces, file_length) ==
    hexdigest(bencode([name |-> str(file_name),
                       piece_length |-> PIECE_LENGTH,
                       pieces |-> join(pieces),
                       length |-> file_length]))

\* torrent_utils.generate_info_hash, lines 52-76: pieces as they are given.
generate_info_hash(file_name, piece_length, pieces, file_length) ==
    hexdigest(bencode([name |-> encode(str(file_name)),
                       piece_length |-> piece_length,
                       pieces |-> pieces,
                       length |-> file_length]))

\* torrent_utils.get_info_hash, lines 29-50, of the contents of a torrent
\* file: the info dictionary is decoded and encoded again.
torrent_info_hash(contents) == hexdigest(bencode(bdecode(contents.info)))

\* TorrentHandler.create_torrent_file, lines 18-74: the torrent written
\* to output_file; its pieces field is the base-64 text.
create_torrent_file(file) ==
    LET encoded_pieces == base64_b64encode(join(generate_pieces_of(file)))
        info_dict == [name |-> encode(str(file.name)),
                      piece_length |-> PIECE_LENGTH,
                      pieces |-> encoded_pieces,
                      length |-> getsize(file)]
    IN  [written |-> TRUE,
         info |-> bencode(info_dict),
         info_hash |-> generate_info_hash(file.name, PIECE_LENGTH,
                                          encoded_pieces, getsize(file))]

\* TorrentHandler.read_torrent_file, lines 76-104.
read_torrent_file(contents) ==
    LET info == bdecode(contents.info)
    IN  [read |-> TRUE,
         info_hash |-> torrent_info_hash(contents),
         info |-> [name |-> decode(info.name),
                   piece_length |-> info.piece_length,
                   length |-> info.length,
                   pieces |-> info.pieces]]

\* Tracker.upload_file, lines 54-103, of input_file.
UploadFile(peer_id) ==
    /\ uploaded = NotUploaded
    /\ LET pieces == generate_pieces_of(input_file)
           indices == {k - 1 : k \in DOMAIN pieces}
           info_hash == tracker_generate_info_hash(input_file.name, pieces,
                                                   getsize(input_file))
           k == get_peer(peers, peer_id)
       IN  /\ torrents' = insert(torrents,
                  [info_hash |-> info_hash,
                   pieces |-> [i \in indices |-> pieces[i + 1]]])
           /\ files' = add_file(files,
                  [metainfo_id |-> info_hash,
                   peers_info |-> <<[peer_id |-> peer_id,
                                     pieces |-> indices]>>])
           /\ IF k = NoRow THEN UNCHANGED peers
              ELSE peers' = update_peer_pieces(peers, peer_id,
                       peers[k].piece_info
                       \cup {[metainfo_id |-> info_hash, index |-> i,
                              piece |-> pieces[i + 1]] : i \in indices})
           /\ uploaded' = [returned |-> "true", info_hash |-> info_hash]
    /\ UNCHANGED <<sched_vars, serve_vars, loop_vars, peer_conn, lock_vars, sessions, tracker_socket, tracker_peers,
                   tracker_sent, update, register, leecher, input_file,
                   output_file, torrent_data, file_download>>

CreateTorrent ==
    /\ ~output_file.written
    /\ output_file' = create_torrent_file(input_file)
    /\ UNCHANGED <<sched_vars, serve_vars, loop_vars, peer_conn, lock_vars, sessions, track_vars, input_file, uploaded,
                   torrent_data, file_download>>

ReadTorrent ==
    /\ output_file.written
    /\ ~torrent_data.read
    /\ torrent_data' = read_torrent_file(output_file)
    /\ UNCHANGED <<sched_vars, serve_vars, loop_vars, peer_conn, lock_vars, sessions, track_vars, input_file, uploaded,
                   output_file, file_download>>

\* combine_pieces, piece.py lines 43-70: whether it returns True. Without
\* pieces it raises at line 47, and the handler of line 66 raises again
\* (temp_file is not bound yet), which download_file catches.
combine_pieces(pieces) ==
    pieces # <<>> /\ \A k \in DOMAIN pieces : downloaded(pieces[k])

\* The completion loop of start_download for the pieces `needed`.
completion_of(needed, completed_count, failed_pieces_snapshot, unavailable, raises) ==
    IF completed_count = Cardinality(needed)
    THEN IF raises THEN "false" ELSE "true"
    ELSE IF \A p \in needed : failed_pieces_snapshot[p] >= MAX_RETRIES
         THEN "false"
         ELSE IF unavailable # {} THEN "false" ELSE "none"

\* PeerNode.download_file, lines 808-866, of a torrent without pieces, by
\* peer_id: the tracker returned peers or none. No piece is needed, so
\* the first turn of the completion loop returns (lines 166-174) after
\* _update_file_info, and combine_pieces gets no pieces.
DownloadEmptyFile(peer_id, found_peers) ==
    /\ output_file.written
    /\ file_download = NoDownload
    /\ LET data == read_torrent_file(output_file)
           total_pieces == Len(base64_b64decode(data.info.pieces).digests)
           needed == 0 .. (total_pieces - 1)
           started == completion_of(needed, 0, [i \in needed |-> 0], {},
                                    FALSE)
       IN  /\ total_pieces = 0
           /\ IF ~found_peers
              THEN /\ file_download' = [NoDownload EXCEPT !.returned = "false"]
                   /\ UNCHANGED files
              ELSE /\ files' = IF started = "true"
                               THEN update_file_info(files, data.info_hash,
                                                     peer_id, {})
                               ELSE files
                   /\ file_download' =
                          [returned |-> IF started = "true"
                                           /\ combine_pieces(<<>>)
                                        THEN "true" ELSE "false",
                           requested |-> {},
                           output |-> <<>>,
                           written |-> started = "true"
                                       /\ combine_pieces(<<>>)]
    /\ UNCHANGED <<sched_vars, serve_vars, loop_vars, peer_conn, lock_vars, sessions, peers, torrents, tracker_socket,
                   tracker_peers, tracker_sent, update, register, leecher,
                   input_file, uploaded, output_file, torrent_data>>

FileInit ==
    /\ SchedInit /\ ServeIdle /\ TrackIdle
    /\ input_file \in InputFiles
    /\ uploaded = NotUploaded
    /\ output_file = NoTorrentFile
    /\ torrent_data = NoTorrentData
    /\ file_download = NoDownload
    /\ LoopIdle
    /\ ConnIdle

\* A file is uploaded to the tracker, its torrent file is created and read
\* back, and the torrent of an empty file is downloaded.
FileNext ==
    \/ \E peer_id \in Peers : UploadFile(peer_id)
    \/ CreateTorrent
    \/ ReadTorrent
    \/ \E peer_id \in Peers, found_peers \in BOOLEAN :
           DownloadEmptyFile(peer_id, found_peers)
    \/ \E peer_id \in Peers : AddPeer(peer_id)

FileSpec == FileInit /\ [][FileNext]_vars

\* ------------------------------------------------- a peer connection
\* One connection after the handshake: the leecher's _download_piece
\* (lines 303-357) at one end, the seeder's _handle_peer_connection and
\* _handle_peer_request (lines 656-743) at the other. What is sent is
\* received in order; a message is received by one recv.
RequestPiece(piece_index) ==
    [type |-> "request_piece", piece_index |-> piece_index]
ACK == [type |-> "ACK", piece_index |-> NoPiece]

\* What the seeder's store may hold for a piece: nothing, the piece, or
\* other bytes.
Stores == [Pieces -> Bytes \cup {NoData}]

\* Lines 678-721: the response to request_piece from get_piece_content.
seeder_response(store, piece_index) ==
    IF downloaded(store[piece_index])
    THEN [kind |-> "piece", data |-> store[piece_index]]
    ELSE [kind |-> "error", data |-> NoData]

\* _download_piece, lines 311-317: the request is sent.
SendRequestPiece(piece_index) ==
    /\ peer_conn.leecher = "idle"
    /\ peer_conn.requested < MaxRequests
    /\ peer_conn' = [peer_conn EXCEPT
           !.to_seeder = Append(@, RequestPiece(piece_index)),
           !.leecher = "await_response",
           !.piece_index = piece_index,
           !.requested = @ + 1]
    /\ UNCHANGED <<sched_vars, serve_vars, track_vars, file_vars, loop_vars,
                   lock_vars, sessions>>

\* _handle_peer_connection, lines 732-739: recv and json.loads, which
\* raises on bytes that are no JSON and ends the handler (line 742); then
\* _handle_peer_request answers a request_piece, and after a piece it
\* waits for the ACK (lines 706-716).
SeederRecv ==
    /\ peer_conn.seeder = "recv"
    /\ peer_conn.to_seeder # <<>>
    /\ LET data == Head(peer_conn.to_seeder)
           answer == seeder_response(peer_conn.store, data.piece_index)
       IN  IF data.type # "request_piece"
           THEN peer_conn' = [peer_conn EXCEPT !.to_seeder = Tail(@),
                                               !.seeder = "ended"]
           ELSE peer_conn' = [peer_conn EXCEPT
                    !.to_seeder = Tail(@),
                    !.to_leecher = Append(@, answer),
                    !.answered = @ + 1,
                    !.seeder = IF answer.kind = "piece" THEN "await_ack"
                               ELSE "recv"]
    /\ UNCHANGED <<sched_vars, serve_vars, track_vars, file_vars, loop_vars,
                   lock_vars, sessions>>

\* Lines 706-716: ack_data = client_socket.recv(1024) takes whatever was
\* sent next; bytes other than b'ACK' are logged and dropped.
SeederAck ==
    /\ peer_conn.seeder = "await_ack"
    /\ peer_conn.to_seeder # <<>>
    /\ peer_conn' = [peer_conn EXCEPT
           !.to_seeder = Tail(@),
           !.seeder = "recv",
           !.swallowed = IF Head(peer_conn.to_seeder) = ACK THEN @
                         ELSE @ + 1]
    /\ UNCHANGED <<sched_vars, serve_vars, track_vars, file_vars, loop_vars,
                   lock_vars, sessions>>

\* Lines 713-716: no bytes for 5 s, socket.timeout.
SeederAckTimeout ==
    /\ peer_conn.seeder = "await_ack"
    /\ peer_conn.to_seeder = <<>>
    /\ peer_conn' = [peer_conn EXCEPT !.seeder = "recv"]
    /\ UNCHANGED <<sched_vars, serve_vars, track_vars, file_vars, loop_vars,
                   lock_vars, sessions>>

\* _download_piece, lines 319-349: the response is read, and the ACK is
\* sent when the piece verifies.
LeecherReceive ==
    /\ peer_conn.leecher = "await_response"
    /\ peer_conn.to_leecher # <<>>
    /\ LET data == received_piece(Head(peer_conn.to_leecher),
                                  peer_conn.piece_index)
       IN  peer_conn' = [peer_conn EXCEPT
               !.to_leecher = Tail(@),
               !.leecher = "idle",
               !.to_seeder = IF data # NoData THEN Append(@, ACK) ELSE @]
    /\ UNCHANGED <<sched_vars, serve_vars, track_vars, file_vars, loop_vars,
                   lock_vars, sessions>>

\* Lines 355-357: no response comes (the request was taken for an ACK, or
\* the handler has ended), recv raises socket.timeout after
\* SOCKET_TIMEOUT.
LeecherTimeout ==
    /\ peer_conn.leecher = "await_response"
    /\ peer_conn.to_leecher = <<>>
    /\ \/ peer_conn.seeder = "ended"
       \/ \A k \in DOMAIN peer_conn.to_seeder :
              peer_conn.to_seeder[k] = ACK
    /\ peer_conn' = [peer_conn EXCEPT !.leecher = "idle"]
    /\ UNCHANGED <<sched_vars, serve_vars, track_vars, file_vars, loop_vars,
                   lock_vars, sessions>>

ConnInit ==
    /\ SchedInit /\ ServeIdle /\ TrackIdle /\ FileIdle /\ LoopIdle
    /\ \E store \in Stores : peer_conn = [NoTraffic EXCEPT !.store = store]

ConnNext ==
    \/ \E piece_index \in Pieces : SendRequestPiece(piece_index)
    \/ SeederRecv
    \/ SeederAck
    \/ SeederAckTimeout
    \/ LeecherReceive
    \/ LeecherTimeout

ConnSpec == ConnInit /\ [][ConnNext]_vars

\* ------------------------------------------------------ the work queue
\* download_queue alone, under the operations the session performs on it:
\* the put of a new request (_queue_piece_requests, _reassign_pieces), the
\* get of a worker, the requeue of a failed request, and the list that
\* _reassign_pieces stores for an evicted peer.
heap_frame == <<is_running, completed_pieces, active_downloads,
    failed_pieces, connected_peers, peer_scores, peer_assignments,
    unavailable_pieces, download_history, peer_list, mpc, result, output,
    wpc, current_peer_id, wpeer_list, reconnect, pending_pieces,
    queue_copy, piece_data, response, reachable, acks>>

\* Lines 246-253 and 935-940: download_queue.put((1, PieceRequest(...))).
QueuePut(piece_index, peer_id) ==
    /\ has_room(requests)
    /\ LET id == new_id(requests)
           R2 == [requests EXCEPT ![id] = PieceRequest(piece_index, peer_id)]
       IN  /\ requests' = R2
           /\ download_queue' = put(R2, download_queue, id)
    /\ UNCHANGED <<heap_frame, request, faults, serve_vars, track_vars,
                   file_vars, loop_vars, peer_conn, lock_vars, sessions>>

\* Line 546: download_queue.get.
QueueGet(w) ==
    /\ request[w] = NoReq
    /\ download_queue # <<>>
    /\ request' = [request EXCEPT ![w] = heappop_item(download_queue)]
    /\ download_queue' = heappop_rest(requests, download_queue)
    /\ UNCHANGED <<heap_frame, requests, faults, serve_vars, track_vars,
                   file_vars, loop_vars, peer_conn, lock_vars, sessions>>

\* Lines 438-442: _requeue_request of the request a worker holds.
QueueRequeue(w) ==
    /\ request[w] # NoReq
    /\ faults < MaxFaults
    /\ faults' = faults + 1
    /\ request' = [request EXCEPT ![w] = NoReq]
    /\ LET R2 == requeue_attempts(requests, request[w])
       IN  /\ download_queue' = IF requeue_puts(requests, request[w])
                                THEN put(R2, download_queue, request[w])
                                ELSE download_queue
           /\ requests' = collect(R2, download_queue', request', queue_copy)
    /\ UNCHANGED <<heap_frame, serve_vars, track_vars, file_vars, loop_vars,
                   peer_conn, lock_vars, sessions>>

\* Lines 908-917: the requests of the dead peer are filtered out of the
\* heap list and the list is stored as the queue.
QueueFilter(dead_peer_id) ==
    /\ \E id \in Range(download_queue) : requests[id].peer_id = dead_peer_id
    /\ download_queue' = requests_not_of(requests, download_queue,
                                         dead_peer_id)
    /\ requests' = collect(requests, download_queue', request, queue_copy)
    /\ UNCHANGED <<heap_frame, request, faults, serve_vars, track_vars,
                   file_vars, loop_vars, peer_conn, lock_vars, sessions>>

QueueNext ==
    \/ \E piece_index \in Pieces, peer_id \in Peers :
           QueuePut(piece_index, peer_id)
    \/ \E w \in Workers : QueueGet(w)
    \/ \E w \in Workers : QueueRequeue(w)
    \/ \E dead_peer_id \in Peers : QueueFilter(dead_peer_id)

QueueSpec == Init /\ [][QueueNext]_vars

\* ------------------------------------------------ cooperative termination
\* PeerNode.stop_server, lines 750-767, called by the signal handler
\* (lines 745-748) and at the end of start_peer_server: the flag is
\* cleared, the sockets of connected_peers are closed and forgotten.
StopServer ==
    /\ is_running
    /\ is_running' = FALSE
    /\ connected_peers' = [p \in Peers |-> NoSock]
    /\ UNCHANGED <<serve_vars, track_vars, file_vars, loop_vars, peer_conn, lock_vars, sessions,
                   download_queue, requests, completed_pieces,
                   active_downloads, failed_pieces, peer_scores,
                   peer_assignments, unavailable_pieces, download_history,
                   peer_list, main_vars, wpc, request, current_peer_id,
                   wpeer_list, reconnect, pending_pieces, queue_copy,
                   piece_data, response, env_vars, acks>>

\* start_peer_server, lines 769-778: the flag is set, the accept loop
\* begins.
StartPeerServer ==
    /\ server_loop = "idle"
    /\ server_loop' = "accepting"
    /\ is_running' = TRUE
    /\ UNCHANGED <<serve_vars, track_vars, file_vars, conn_manager, peer_conn, lock_vars, sessions,
                   download_queue, requests, completed_pieces,
                   active_downloads, failed_pieces, connected_peers,
                   peer_scores, peer_assignments, unavailable_pieces,
                   download_history, peer_list, main_vars, wpc, request,
                   current_peer_id, wpeer_list, reconnect, pending_pieces,
                   queue_copy, piece_data, response, env_vars, acks>>

\* Lines 780-806: the loop test after accept timed out (3 s) or raised on
\* the closed socket; with the flag cleared the loop is left and the
\* finally clause calls stop_server.
ServerLoopExit ==
    /\ server_loop = "accepting"
    /\ ~is_running
    /\ server_loop' = "exited"
    /\ connected_peers' = [p \in Peers |-> NoSock]
    /\ UNCHANGED <<serve_vars, track_vars, file_vars, conn_manager, peer_conn, lock_vars, sessions,
                   is_running, download_queue, requests, completed_pieces,
                   active_downloads, failed_pieces, peer_scores,
                   peer_assignments, unavailable_pieces, download_history,
                   peer_list, main_vars, wpc, request, current_peer_id,
                   wpeer_list, reconnect, pending_pieces, queue_copy,
                   piece_data, response, env_vars, acks>>

\* A connection manager that keeps sleeping.
ManagerSleeps ==
    /\ conn_manager = "running"
    /\ ~is_running
    /\ UNCHANGED vars

\* _manage_peer_connections, line 510: the loop test with the flag cleared.
ManagerExit ==
    /\ conn_manager = "running"
    /\ ~is_running
    /\ conn_manager' = "exited"
    /\ UNCHANGED <<sched_vars, serve_vars, track_vars, file_vars,
                   server_loop, peer_conn, lock_vars, sessions>>

\* start_download, lines 157 and 186-187: the completion loop finds the
\* flag cleared by another thread.
MainStopped ==
    /\ mpc = "wait"
    /\ ~is_running
    /\ result' = IF Cardinality(completed_pieces) = Cardinality(needed_pieces)
                 THEN "true" ELSE "false"
    /\ mpc' = "returned"
    /\ UNCHANGED <<serve_vars, track_vars, file_vars, loop_vars, peer_conn, lock_vars, sessions,
                   is_running, download_queue, requests, completed_pieces,
                   active_downloads, failed_pieces, connected_peers,
                   peer_scores, peer_assignments, unavailable_pieces,
                   download_history, peer_list, output, wpc, request,
                   current_peer_id, wpeer_list, reconnect, pending_pieces,
                   queue_copy, piece_data, response, env_vars, acks>>

\* The steps of a worker whose peers stay reachable and answer well.
StopWorker(w) ==
    \/ WorkerGet(w)
    \/ WorkerAssign(w)
    \/ WorkerConnect(w)
    \/ WorkerDownload(w)
    \/ WorkerSuccessPiece(w)
    \/ WorkerSuccessStore(w)
    \/ WorkerFailPiece(w)

\* A node that is started as a server, downloads, and is stopped at any
\* moment; its peers stay reachable.
StopNext ==
    \/ Main
    \/ \E w \in Workers : StopWorker(w)
    \/ \E p \in Peers : ManagerConnect(p)
    \/ StopServer
    \/ mpc = "idle" /\ StartPeerServer
    \/ ServerLoopExit
    \/ ManagerExit
    \/ MainStopped

\* Every thread of the node keeps running: a worker, the connection
\* manager (it sleeps 1 s a turn) and the accept loop (accept times out
\* after 3 s) each take their next step.
StopFairness ==
    /\ \A w \in Workers : WF_vars(StopWorker(w))
    /\ WF_vars(ManagerExit)
    /\ WF_vars(ServerLoopExit)

StopSpec == Init /\ [][StopNext]_vars /\ StopFairness


\* ----------------------------------------------------------- the claims
Succeeding(w) == wpc[w] \in {"success_piece", "success_store"}

Corrupted(resp, piece_index) ==
    resp.kind = "piece" /\ resp.data # 0 /\ resp.data # PieceContent(piece_index)

\* C1: a piece enters completed_pieces and active_downloads only with bytes
\* whose SHA-1 is piece_hashes[index]: the bytes stored for a piece hash to
\* its entry, a completed piece is stored or is being stored by a worker
\* that holds such bytes, and a worker is on the success path only after a
\* response that carried exactly such bytes, whatever else the peers sent.
C1_VerifiedOnly ==
    /\ \A i \in Pieces :
           active_downloads[i] # NoData =>
               sha1(active_downloads[i]) = piece_hashes[i]
    /\ \A w \in Workers :
           Succeeding(w) =>
               /\ response[w].kind = "piece"
               /\ piece_data[w] = response[w].data
               /\ sha1(piece_data[w]) = piece_hashes[ReqPiece(w)]
    /\ \A i \in completed_pieces :
           \/ active_downloads[i] # NoData
           \/ \E w \in Workers : wpc[w] = "success_store" /\ ReqPiece(w) = i

\* A peer has sent other bytes for a piece, the worker is on the failure
\* path, and the piece is not completed while another one is.
C1_Witness ==
    \E w \in Workers :
        /\ wpc[w] = "fail_piece"
        /\ Corrupted(response[w], ReqPiece(w))
        /\ ReqPiece(w) \notin completed_pieces
        /\ completed_pieces # {}

Holding(w) == request[w] # NoReq

\* C2: at most one worker holds a dequeued request for a piece index: two
\* workers that each hold a request hold requests for different pieces.
C2_OneHolderPerPiece ==
    \A w1, w2 \in Workers :
        (w1 # w2 /\ Holding(w1) /\ Holding(w2)) => ReqPiece(w1) # ReqPiece(w2)

Returned == mpc \in {"returned", "done"}

Covered == \A i \in needed_pieces : \E p \in Peers : i \in peer_list[p]

\* C4: when every needed piece is claimed by a peer and no peer ever fails
\* (each is reachable and answers every request with the piece), a session
\* that has returned has returned True.
C4_ReliableSwarmSucceeds ==
    (Returned /\ Covered /\ faults = 0) => result = "true"

\* A step of the leecher itself: of the completion loop, of a worker or of
\* the connection manager (the peers' own steps are left out).
ProgramStep ==
    \/ MainWait
    \/ \E w \in Workers : Worker(w)
    \/ \E p \in Peers : ManagerConnect(p)

Abandoned(i) == failed_pieces[i] >= MAX_RETRIES /\ i \notin completed_pieces

\* C5: once a needed piece is abandoned after MAX_RETRIES failed attempts the
\* session terminates with failure: a session that has returned has returned
\* False, and one that has not returned can still take a step. (Stated for
\* the swarms in which every piece is claimed by a peer.)
C5_AbandonedTerminates ==
    (Covered /\ \E i \in needed_pieces : Abandoned(i)) =>
        /\ Returned => result = "false"
        /\ ~Returned => ENABLED ProgramStep

Unclaimed(i) == \A p \in Peers : i \notin peer_list[p]

Started == mpc # "idle"

\* The requests of a piece that are in the queue or held by a worker.
Tracked(i) ==
    \E id \in Range(download_queue) \cup Range(request) :
        id # NoReq /\ requests[id].piece_index = i

\* C6: a needed piece that no peer of the peer list claims is tracked by the
\* scheduler from the start of the session (it has a request, or it is
\* recorded in unavailable_pieces), and the session does not wait forever:
\* when it has returned it has returned False, and otherwise a step is left.
C6_UnclaimedPieceFails ==
    (Started /\ \E i \in needed_pieces : Unclaimed(i)) =>
        /\ \A i \in needed_pieces :
               Unclaimed(i) => Tracked(i) \/ i \in unavailable_pieces
        /\ Returned => result = "false"
        /\ ~Returned => ENABLED ProgramStep

AllUnreachable == \A p \in Peers : ~reachable[p]

Unfinished == needed_pieces \ completed_pieces

\* C7: when all peers have become unreachable during the session with needed
\* pieces unfinished, the session ends with those pieces recorded in
\* unavailable_pieces and with the result False: a session that has
\* returned shows both, and one that has not returned can still take a step.
\* (Stated for the swarms in which every piece is claimed by a peer.)
C7_AllPeersGoneSurfaced ==
    (Covered /\ AllUnreachable /\ Unfinished # {}) =>
        /\ Returned => (result = "false" /\ Unfinished \subseteq unavailable_pieces)
        /\ ~Returned => ENABLED ProgramStep

\* C8: the leecher sends at most one ACK for a piece in a session, and of
\* two workers that hold a request for the same piece at most one goes on
\* to the peer with it (the other one requeues it).
C8_OneAckPerPiece ==
    /\ \A i \in Pieces : acks[i] <= 1
    /\ \A w1, w2 \in Workers :
           (w1 # w2 /\ Holding(w1) /\ Holding(w2) /\ ReqPiece(w1) = ReqPiece(w2))
               => wpc[w1] = "assign" \/ wpc[w2] = "assign"

\* The step of worker w in which _download_piece gets a response whose bytes
\* do not hash to the piece's entry.
MismatchStep(w) ==
    /\ wpc[w] = "download"
    /\ wpc'[w] # "download"
    /\ Corrupted(response'[w], ReqPiece(w))

\* An ACK is sent in a step only by a worker that has just received a
\* complete response whose bytes verify against piece_hashes[index].
AckOnlyVerified ==
    \A i \in Pieces :
        acks'[i] # acks[i] =>
            /\ acks'[i] = acks[i] + 1
            /\ \E w \in Workers :
                   /\ wpc[w] = "download"
                   /\ ReqPiece(w) = i
                   /\ response'[w].kind = "piece"
                   /\ verify_piece(response'[w].data, i)

\* The failure path counts the attempt in failed_pieces.
FailureCounted ==
    \A w \in Workers :
        (wpc[w] = "fail_piece" /\ wpc'[w] # "fail_piece") =>
            failed_pieces'[ReqPiece(w)] = failed_pieces[ReqPiece(w)] + 1

\* C9 as stated: ACK only after a complete, verified response; after a
\* hash mismatch no ACK is sent, the attempt goes to the failure path and
\* is counted as failed, and the serving peer's score becomes lower.
C9_MismatchLowersScore ==
    [][/\ AckOnlyVerified
       /\ FailureCounted
       /\ \A w \in Workers :
              MismatchStep(w) =>
                  /\ acks' = acks
                  /\ wpc'[w] = "fail_piece"
                  /\ peer_scores'[ReqPeer(w)] < peer_scores[ReqPeer(w)]]_vars

\* C9, amended: the same, with the score lowered by 0.5 but not below 0.0
\* (a peer whose score is 0.0 keeps 0.0).
C9_MismatchFlooredScore ==
    [][/\ AckOnlyVerified
       /\ FailureCounted
       /\ \A w \in Workers :
              MismatchStep(w) =>
                  /\ acks' = acks
                  /\ wpc'[w] = "fail_piece"
                  /\ peer_scores'[ReqPeer(w)] =
                         (IF peer_scores[ReqPeer(w)] >= 1
                          THEN peer_scores[ReqPeer(w)] - 1 ELSE 0)]_vars

\* A worker is on the failure path after a hash mismatch from a peer whose
\* score was positive before, and no ACK was sent for the piece.
C9_Witness ==
    \E w \in Workers :
        /\ wpc[w] = "fail_piece"
        /\ Corrupted(response[w], ReqPiece(w))
        /\ download_history[ReqPeer(w)] # {}
        /\ peer_scores[ReqPeer(w)] = 1
        /\ acks[ReqPiece(w)] = 0

\* C10: the serving peer sends piece data on a connection only after a
\* handshake has succeeded on that connection.
C10_HandshakeBeforeData ==
    \A c \in Conns :
        (sent[c].type = "request_piece" /\ sent[c].status = "success")
            => client_socket[c].hs

\* What the directory says of a peer_id at a handshake.
directory_status(peer_id) ==
    IF get_peer(peers, peer_id) # NoRow THEN "success" ELSE "error"

\* C11: when the tracker receives the handshake of a connection it answers
\* with a status response, success for a peer_id that has a record in the
\* directory and error for one that has none; and the leecher sends
\* get_peers only after it has read a success.
C11_TrackerHandshakeAnswered ==
    [][/\ \A c \in Conns, p \in Peers :
              ReceiveFirst(c, Handshake(p))
                  => tracker_sent'[c].status = directory_status(p)
       /\ leecher'.pc = "wait_peers" /\ leecher.pc # "wait_peers"
              => tracker_sent[leecher.conn].status = "success"]_vars

\* C12: the peer list the tracker returns to a get_peers request never
\* contains the peer_id of the connection that asked.
C12_GetPeersExcludesRequester ==
    \A c \in Conns :
        (tracker_socket[c].state = "serving"
            /\ tracker_sent[c].type = "get_peers")
            => tracker_socket[c].peer_id \notin tracker_sent[c].peers

\* The requests that are malformed: bytes that are no JSON, and a request
\* of an unknown type.
Malformed == {Garbage, Message("unknown", NoPeer, NoRef, {})}

\* C13: a malformed request on a tracker connection is answered with an
\* error response, leaves the directory as it was and leaves the connection
\* open for later requests.
C13_MalformedAnswered ==
    [][\A c \in Conns, req \in Malformed :
           ReceiveRequest(c, req)
               => /\ tracker_sent'[c].status = "error"
                  /\ tracker_socket'[c].state = "serving"
                  /\ <<peers, torrents, files>>' = <<peers, torrents, files>>]_vars

\* The piece sets the file entry of info_hash holds for peer_id: one set
\* when the peer has exactly one entry of peers_info.
claimed(table, info_hash, peer_id) ==
    LET k == get_file(table, info_hash)
    IN  IF k = NoRow THEN {}
        ELSE {table[k].peers_info[j].pieces :
                  j \in {j \in DOMAIN table[k].peers_info :
                             table[k].peers_info[j].peer_id = peer_id}}

\* C14: update_pieces requests of two peers handled at the same time on two
\* connections are both in the file entry afterwards: the write of one
\* handler leaves what the file entry holds for every other peer as it was.
C14_NoLostUpdate ==
    [][\A c \in Conns :
           UpdatePutFile(c)
               => \A q \in Peers \ {tracker_socket[c].peer_id} :
                      claimed(files', update[c].torrent_hash, q)
                          = claimed(files, update[c].torrent_hash, q)]_vars

\* The peers_info entries of peer_id in the file entry that get_file
\* returns for info_hash.
entries(table, info_hash, peer_id) ==
    LET k == get_file(table, info_hash)
    IN  IF k = NoRow THEN {}
        ELSE {j \in DOMAIN table[k].peers_info :
                  table[k].peers_info[j].peer_id = peer_id}

\* The file entry of info_hash holds one entry for peer_id, with exactly
\* `pieces`.
replaced(table, info_hash, peer_id, pieces) ==
    /\ Cardinality(entries(table, info_hash, peer_id)) = 1
    /\ claimed(table, info_hash, peer_id) = {pieces}

\* The file entry has not been written since the handler of connection c
\* read it at line 341.
fresh(c) ==
    LET k == get_file(files, update[c].torrent_hash)
    IN  /\ k # NoRow
        /\ update[c].file_entry[1] =
               [files[k] EXCEPT !.peers_info =
                    set_file_peer(@, tracker_socket[c].peer_id,
                                  update[c].pieces)]

\* C15: handling update_pieces(info_hash, pieces) from peer p leaves the
\* file entry with exactly one peers_info entry for p, holding exactly
\* `pieces`, and (no other write coming in between) leaves the entries of
\* the other peers as they were; the write a leecher makes to the file
\* entry when its download is complete has the same effect for the pieces
\* it completed.
C15_UpdateReplacesClaim ==
    [][/\ \A c \in Conns :
              UpdatePutFile(c)
                  => /\ replaced(files', update[c].torrent_hash,
                                 tracker_socket[c].peer_id, update[c].pieces)
                     /\ fresh(c)
                            => \A q \in Peers \ {tracker_socket[c].peer_id} :
                                   claimed(files', update[c].torrent_hash, q)
                                       = claimed(files,
                                                 update[c].torrent_hash, q)
       /\ \A info_hash \in Hashes, p \in Peers :
              UpdateFileInfo(info_hash, p)
                  => /\ replaced(files', info_hash, p, needed_pieces)
                     /\ \A q \in Peers \ {p} :
                            claimed(files', info_hash, q)
                                = claimed(files, info_hash, q)]_vars

\* C16: every peer_id referenced in the peers_info of any file entry has a
\* PeerRecord in the directory.
C16_ReferencedPeersHaveRecords ==
    \A k \in DOMAIN files : \A j \in DOMAIN files[k].peers_info :
        get_peer(peers, files[k].peers_info[j].peer_id) # NoRow

\* The piece indices of the torrent info_hash; every index while the
\* directory has no record of the torrent.
indices_of(info_hash) ==
    LET k == get_torrent(torrents, info_hash)
    IN  IF k = NoRow THEN Indices ELSE DOMAIN torrents[k].pieces

\* C17: every piece index claimed for a peer in the directory, in a file
\* entry or in the peer's record, is in [0, piece_count) of its torrent; an
\* update_pieces carrying an index out of that range does not make it
\* appear.
C17_ClaimedPiecesInRange ==
    /\ \A k \in DOMAIN files : \A j \in DOMAIN files[k].peers_info :
           files[k].peers_info[j].pieces
               \subseteq indices_of(files[k].metainfo_id)
    /\ \A k \in DOMAIN peers : \A e \in peers[k].piece_info :
           e.index \in indices_of(e.metainfo_id)

\* The records of peer_id in the peers table.
records(table, peer_id) == {k \in DOMAIN table : table[k].peer_id = peer_id}

\* C18: whatever the interleaving of registrations, the store holds at
\* most one PeerRecord per peer_id, and the registration of an id that has
\* a record changes the record only when the node asked for a change of
\* (ip, port).
C18_OnePeerRecordPerId ==
    [][/\ \A p \in Peers : Cardinality(records(peers', p)) <= 1
       /\ \A n \in Nodes :
              (RegisterPut(n) /\ register[n].pc = "found"
                   /\ ~register[n].change_ip_port)
                  => peers' = peers]_vars

\* The contents stored under the record of peer_id for piece (info_hash, i).
stored(table, peer_id, info_hash, i) ==
    LET k == get_peer(table, peer_id)
    IN  IF k = NoRow THEN {}
        ELSE {e.piece : e \in {x \in table[k].piece_info :
                                   x.metainfo_id = info_hash /\ x.index = i}}

\* C19: after upload_file for a registered peer, the file entry lists the
\* peer with exactly the indices 0..piece_count-1, and what is stored under
\* the peer's record for each piece i is the bytes of piece i: its SHA-1 is
\* piece_hashes[i], so that it passes verify_piece.
C19_UploadStoresPieces ==
    [][\A info_hash \in Hashes, p \in Peers :
           (Upload(info_hash, p) /\ get_peer(peers, p) # NoRow)
               => /\ claimed(files', info_hash, p) = {Pieces}
                  /\ \A i \in Pieces :
                         /\ stored(peers', p, info_hash, i) # {}
                         /\ \A piece \in stored(peers', p, info_hash, i) :
                                verify_piece(piece, i)]_vars

\* The rows of a table of the directory whose key field has the value key.
rows(table, field, key) == {k \in DOMAIN table : table[k][field] = key}

\* C20: uploading a file, also one that was uploaded before by the same or
\* by another peer, leaves exactly one torrent record and one file entry
\* for its info_hash; the uploader is listed once in the peers_info that
\* get_peers reads, with every piece index, and the entries of the earlier
\* uploaders are still there.
C20_UploadIsUpsert ==
    [][\A info_hash \in Hashes, p \in Peers :
           Upload(info_hash, p)
               => /\ Cardinality(rows(torrents', "info_hash", info_hash)) = 1
                  /\ Cardinality(rows(files', "metainfo_id", info_hash)) = 1
                  /\ replaced(files', info_hash, p, Pieces)
                  /\ \A q \in Peers \ {p} :
                         claimed(files', info_hash, q)
                             = claimed(files, info_hash, q)]_vars

\* C21: for the same file, the info_hash the tracker computes at upload,
\* the one computed when the torrent file is created and the one computed
\* when it is read back are equal, so that the hash a leecher takes from
\* the torrent file finds the file entry of the upload.
C21_InfoHashAgrees ==
    /\ (uploaded.returned = "true" /\ output_file.written)
           => uploaded.info_hash = output_file.info_hash
    /\ (output_file.written /\ torrent_data.read)
           => torrent_data.info_hash = output_file.info_hash
    /\ (uploaded.returned = "true" /\ torrent_data.read)
           => get_file(files, torrent_data.info_hash) # NoRow

\* C22: for a file of length zero the upload succeeds, and a download of
\* its torrent for which the tracker returned peers returns success,
\* requests no piece and writes an empty output file.
C22_EmptyFileSucceeds ==
    [][/\ \A peer_id \in Peers :
              (UploadFile(peer_id) /\ input_file.pieces = <<>>)
                  => uploaded'.returned = "true"
       /\ \A peer_id \in Peers :
              DownloadEmptyFile(peer_id, TRUE)
                  => /\ file_download'.returned = "true"
                     /\ file_download'.requested = {}
                     /\ file_download'.written
                     /\ file_download'.output = <<>>]_vars

\* The flag was set and is cleared.
Cleared == ~is_running /\ (mpc # "idle" \/ server_loop # "idle")

\* No worker, connection manager or accept loop is running.
Exited ==
    /\ \A w \in Workers : wpc[w] \in {"idle", "stopped"}
    /\ conn_manager # "running"
    /\ server_loop # "accepting"

others_claiming(w, piece_index, peer_id) ==
    {p \in wpeer_list[w] \ {peer_id} : piece_index \in peer_list[p]}

\* The requests of the queue for piece i and one of the peers.
queued_for(R, queue, piece_index, candidates) ==
    {id \in Range(queue) : /\ R[id].piece_index = piece_index
                           /\ R[id].peer_id \in candidates}

\* C24: when a worker evicts an unreachable peer P, the queue is left with
\* no request of P; each piece that was
\* pending for P gets a request for an other peer that claims it (a
\* best-scoring one), or, if no other peer claims it, it is added to
\* unavailable_pieces, and so is the piece of the request of P that the
\* evicting worker holds; and with an unavailable piece the completion
\* check of an incomplete session fails.
C24_EvictionReassigns ==
    [][/\ \A w \in Workers :
              ReassignFilter(w)
                  => \A id \in Range(download_queue') :
                         requests'[id].peer_id # ReqPeer(w)
       /\ \A w \in Workers :
              (ReassignPiece(w) /\ pending_pieces[w] # <<>>)
                  => LET piece_index == Head(pending_pieces[w])
                         cands == others_claiming(w, piece_index, ReqPeer(w))
                         scores == calculate_peer_scores(connected_peers)
                         best == {p \in cands :
                                      \A q \in cands : scores[p] >= scores[q]}
                     IN  /\ pending_pieces'[w] = Tail(pending_pieces[w])
                         /\ IF cands = {}
                            THEN piece_index \in unavailable_pieces'
                            ELSE queued_for(requests', download_queue',
                                            piece_index, best)
                                   # queued_for(requests, download_queue,
                                                piece_index, best)
       /\ \A w \in Workers :
              (WorkerReset(w) /\ ReqPiece(w) \notin completed_pieces)
                  => \/ ReqPiece(w) \in unavailable_pieces'
                     \/ queued_for(requests', download_queue', ReqPiece(w),
                                   Peers \ {ReqPeer(w)}) # {}
       /\ (MainWait /\ unavailable_pieces # {}
                    /\ completed_pieces # needed_pieces)
              => result' = "false"]_vars

\* The peers a worker is the worker of.
owned(w) == {p \in Peers : peer_assignments[p] = w}

\* A worker is about to send request_piece, or waits for the answer.
Requesting(w) == wpc[w] = "download"

\* C25: sticky assignment. A peer has at most one worker (peer_assignments
\* is a map) and a worker has at most one peer, the one it is sticky to; a
\* worker sends request_piece to a peer only while peer_assignments maps
\* the peer to it; and a worker that dequeued a request of a peer that
\* another worker has puts the same request back with its attempts
\* unchanged.
C25_StickyAssignment ==
    /\ [](\A w \in Workers :
              /\ Cardinality(owned(w)) <= 1
              /\ owned(w) \subseteq {current_peer_id[w]}
              /\ Requesting(w) => peer_assignments[ReqPeer(w)] = w)
    /\ [][\A w \in Workers :
              (WorkerAssign(w) /\ peer_assignments[ReqPeer(w)] \notin {NoWorker, w})
                  => /\ request[w] \in Range(download_queue')
                     /\ requests'[request[w]] = requests[request[w]]
                     /\ request'[w] = NoReq
                     /\ UNCHANGED <<peer_assignments, current_peer_id,
                                    connected_peers>>]_vars

\* A worker sends request_piece to its peer while the other worker has
\* dequeued another request of the same peer.
C25_Witness ==
    \E w \in Workers, v \in Workers :
        /\ w # v
        /\ Requesting(w)
        /\ wpc[v] = "assign"
        /\ ReqPeer(v) = ReqPeer(w)
        /\ peer_assignments[ReqPeer(w)] = w

\* C26: the success path of a worker is atomic for every other thread: no
\* state that another thread can observe has a piece in completed_pieces
\* without its bytes in active_downloads, and the completion check of a
\* session whose pieces are all completed returns True.
C26_SuccessPathAtomic ==
    /\ [](\A i \in completed_pieces : downloaded(active_downloads[i]))
    /\ [][(MainWait /\ completed_pieces = needed_pieces)
              => result' = "true"]_vars

\* C27: on a peer connection every request_piece is received by the seeder
\* as a request and answered: the seeder's wait for an ACK never takes a
\* request_piece, and once the leecher is idle and nothing is in flight
\* every request it sent has got its response.
C27_RequestsInOrder ==
    /\ peer_conn.swallowed = 0
    /\ (peer_conn.leecher = "idle" /\ peer_conn.to_seeder = <<>>
            /\ peer_conn.seeder # "ended")
           => peer_conn.answered = peer_conn.requested

\* The requests for piece i that were sent to a peer and came to an end:
\* the failures counted, the failures not counted yet, and the pieces
\* received and acknowledged.
requested_times(i) ==
    failed_pieces[i] + acks[i]
        + Cardinality({w \in Workers : wpc[w] = "fail_piece" /\ ReqPiece(w) = i})

\* C28: in a session no piece is requested from peers more than MAX_RETRIES
\* times and failed_pieces[i] never exceeds MAX_RETRIES; a failed request
\* is put back only while the limit is not reached.
C28_RetriesBounded ==
    /\ [](\A i \in Pieces : /\ failed_pieces[i] <= MAX_RETRIES
                           /\ requested_times(i) <= MAX_RETRIES)
    /\ [][\A w \in Workers :
              (WorkerFailPiece(w) /\ Len(download_queue') > Len(download_queue))
                  => /\ failed_pieces'[ReqPiece(w)] < MAX_RETRIES
                     /\ requests'[request[w]].attempts < MAX_RETRIES]_vars

\* C29: whenever a worker dequeues, the request it obtains has the least
\* attempts of all requests in the queue, also after _reassign_pieces has
\* stored a filtered list as the queue.
C29_DequeueLeastAttempts ==
    [][\A w \in Workers :
           QueueGet(w)
               => \A id \in Range(download_queue) :
                      requests[heappop_item(download_queue)].attempts
                          <= requests[id].attempts]_vars

\* The requests start_download has put, the peers claiming a piece, and
\* the number of pieces before piece_index that the pass gave to a peer.
enqueued == Range(download_queue') \ Range(download_queue)

claiming(claims, piece_index) == {p \in Peers : piece_index \in claims[p]}

assigned_before(peer_id, piece_index) ==
    Cardinality({id \in enqueued :
                     /\ requests'[id].peer_id = peer_id
                     /\ requests'[id].piece_index < piece_index})

\* C30: the initial assignment enqueues, for every needed piece that some
\* peer claims, exactly one request; its peer claims the piece and has the
\* greatest score minus 0.1 per piece already assigned to it in the pass.
\* A piece nobody claims gets no request.
C30_InitialAssignment ==
    [][\A claims \in Swarms :
           start_download(claims) =>
               \A i \in needed_pieces :
                   LET put_for == {id \in enqueued :
                                       requests'[id].piece_index = i}
                       scores == calculate_peer_scores(connected_peers)
                   IN  /\ Cardinality(put_for)
                              = (IF claiming(claims, i) = {} THEN 0 ELSE 1)
                       /\ \A id \in put_for :
                              LET p == requests'[id].peer_id
                              IN  /\ p \in claiming(claims, i)
                                  /\ requests'[id].attempts = 0
                                  /\ \A q \in claiming(claims, i) :
                                         scores[p] - assigned_before(p, i)
                                             >= scores[q]
                                                - assigned_before(q, i)]_vars

\* A session has just been started with a first peer that claims both
\* pieces and a second that claims piece 1 only, none of them connected:
\* piece 0 is queued for the first and piece 1 for the second.
C30_Witness ==
    /\ mpc = "wait"
    /\ \A w \in Workers : wpc[w] = "loop" /\ request[w] = NoReq
    /\ peer_list = [p \in Peers |-> IF p = 1 THEN {0, 1} ELSE {1}]
    /\ \A p \in Peers : ~connected_peers[p].open
    /\ Len(download_queue) = 2
    /\ \E id \in Range(download_queue) :
           requests[id].piece_index = 0 /\ requests[id].peer_id = 1
    /\ \E id \in Range(download_queue) :
           requests[id].piece_index = 1 /\ requests[id].peer_id = 2

\* ------------------------------------------------- a node used again
\* download_file has returned False and is called again on the same
\* PeerNode: the threads of the finished session have seen is_running
\* cleared and have left their loops; nothing but what start_download
\* clears is reset.
DownloadAgain ==
    /\ mpc = "done"
    /\ result = "false"
    /\ ~is_running
    /\ \A w \in Workers : wpc[w] = "loop" /\ request[w] = NoReq
    /\ Cardinality({id \in DOMAIN requests : requests[id] = NoRequest})
           >= NumPieces
    /\ sessions < MaxSessions
    /\ sessions' = sessions + 1
    /\ mpc' = "idle"
    /\ wpc' = [w \in Workers |-> "idle"]
    /\ conn_manager' = "idle"
    /\ UNCHANGED <<serve_vars, track_vars, file_vars, server_loop, peer_conn, lock_vars,
                   is_running, download_queue, requests, completed_pieces,
                   active_downloads, failed_pieces, connected_peers,
                   peer_scores, peer_assignments, unavailable_pieces,
                   download_history, peer_list, result, output, request,
                   current_peer_id, wpeer_list, reconnect, pending_pieces,
                   queue_copy, piece_data, response, env_vars, acks>>

\* The session without the connection manager's connects and without peers
\* dropping out: a peer is lost to a worker by a refused handshake.
SessionNext ==
    \/ Main
    \/ \E w \in Workers : Worker(w)
    \/ DownloadAgain

SessionSpec == Init /\ [][SessionNext]_vars

\* C33: when start_download begins, no PieceRequest, unavailable-piece mark,
\* worker assignment or download-history entry of an earlier session of the
\* node remains.
C33_SessionConfined ==
    [][\A claims \in Swarms :
           start_download(claims) =>
               /\ download_queue = <<>>
               /\ unavailable_pieces = {}
               /\ \A p \in Peers : peer_assignments[p] = NoWorker
               /\ \A p \in Peers : download_history[p] = {}]_vars

\* The number of entries of download_history over the peers in S.
RECURSIVE history_size(_)
history_size(S) ==
    IF S = {} THEN 0
    ELSE LET p == CHOOSE q \in S : TRUE
         IN  Cardinality(download_history[p]) + history_size(S \ {p})

\* C34: in every state of a download session the sizes of the peers'
\* download_history sets add up to the number of completed pieces.
C34_HistoryMatchesCompleted ==
    mpc = "wait" => history_size(Peers) = Cardinality(completed_pieces)

\* ------------------------------------------- the store the peers share
\* Every PeerNode opens the same database (BaseDatabase.__init__:
\* MongoClient(Config.DB_URI)[Config.DB_NAME]); a peer's pieces are the
\* piece_info of its record in the collection peers.
NumStoreTorrents == 2
StoreHashes == 1 .. NumStoreTorrents

\* PeerDatabase.update_peer_pieces, peer_db.py lines 15-27: update_one with
\* $set writes the piece_info of the first record of the peer.
set_piece_info(table, peer_id, piece_info_list) ==
    LET k == get_peer(table, peer_id)
    IN  IF k = NoRow THEN table
        ELSE [table EXCEPT ![k].piece_info = piece_info_list]

\* _update_completed_pieces, peer.py lines 196-205: the list it builds.
completed_piece_info(info_hash, completed) ==
    {[metainfo_id |-> info_hash, index |-> i, piece |-> PieceContent(i)] :
         i \in completed}

\* start_download, lines 166-169: the session is complete and
\* _update_completed_pieces writes the record of the local peer.
UpdateCompletedPieces(peer_id, info_hash) ==
    /\ peers' = set_piece_info(peers, peer_id,
                    completed_piece_info(info_hash, needed_pieces))
    /\ peers' # peers
    /\ UNCHANGED <<sched_vars, serve_vars, file_vars, loop_vars, peer_conn,
                   lock_vars, sessions, torrents, files, tracker_socket,
                   tracker_peers, tracker_sent, update, register, leecher>>

\* PeerDatabase.get_piece_content, peer_db.py lines 29-63: find_one over the
\* whole collection with $elemMatch, then the piece of that record.
holds_piece(record, info_hash, piece_index) ==
    \E e \in record.piece_info :
        e.metainfo_id = info_hash /\ e.index = piece_index

get_piece_content(table, info_hash, piece_index) ==
    IF \A k \in DOMAIN table : ~holds_piece(table[k], info_hash, piece_index)
    THEN NoData
    ELSE LET k == CHOOSE j \in DOMAIN table :
                      /\ holds_piece(table[j], info_hash, piece_index)
                      /\ \A i \in 1 .. (j - 1) :
                             ~holds_piece(table[i], info_hash, piece_index)
         IN  (CHOOSE e \in table[k].piece_info :
                  e.metainfo_id = info_hash /\ e.index = piece_index).piece

\* _handle_peer_request, lines 678-724, of the serving peer peer_id: the
\* answer to request_piece(info_hash, piece_index) on connection c.
ServeRequestPiece(peer_id, c, info_hash, piece_index) ==
    /\ client_socket[c].state = "open"
    /\ sent' = [sent EXCEPT ![c] =
           IF downloaded(get_piece_content(peers, info_hash,
                                           piece_index))
           THEN [type |-> "request_piece", status |-> "success",
                 piece_index |-> piece_index]
           ELSE [type |-> "request_piece", status |-> "error",
                 piece_index |-> NoPiece]]
    /\ UNCHANGED <<sched_vars, track_vars, file_vars, loop_vars, peer_conn,
                   lock_vars, sessions, client_socket, inbound_peers,
                   piece_info>>

StoreNext ==
    \/ \E peer_id \in Peers : AddPeer(peer_id)
    \/ \E peer_id \in Peers, info_hash \in StoreHashes :
           UpdateCompletedPieces(peer_id, info_hash)
    \/ \E c \in Conns : Accept(c)
    \/ \E peer_id \in Peers, c \in Conns, info_hash \in StoreHashes,
          piece_index \in Pieces :
           ServeRequestPiece(peer_id, c, info_hash, piece_index)

StoreSpec == Init /\ [][StoreNext]_vars

\* C35: a serving peer answers request_piece with piece data only if its
\* own record holds the piece; otherwise it answers with an error, also
\* when the record of another peer holds the piece.
C35_ServesOwnPiecesOnly ==
    [][\A peer_id \in Peers, c \in Conns, info_hash \in StoreHashes,
          piece_index \in Pieces :
           (/\ get_peer(peers, peer_id) # NoRow
            /\ ServeRequestPiece(peer_id, c, info_hash, piece_index))
               => (sent'[c].status = "success"
                       <=> holds_piece(peers[get_peer(peers, peer_id)],
                                       info_hash, piece_index))]_vars

\* C38: completing a download of a torrent leaves the pieces the local
\* peer stores for every other torrent as they were.
C38_OtherTorrentsKept ==
    [][\A peer_id \in Peers, info_hash \in StoreHashes :
           UpdateCompletedPieces(peer_id, info_hash)
               => \A k \in DOMAIN peers :
                      {e \in peers[k].piece_info : e.metainfo_id # info_hash}
                          \subseteq peers'[k].piece_info]_vars

\* Where a needed piece can be: completed, in the work queue, in flight with
\* a worker (the request it holds, or a piece _reassign_pieces has yet to
\* queue again), abandoned after MAX_RETRIES failures, or marked unavailable.
Queued(i) == \E id \in Range(download_queue) : requests[id].piece_index = i

InFlight(i) ==
    \E w \in Workers :
        \/ request[w] # NoReq /\ requests[request[w]].piece_index = i
        \/ i \in Range(pending_pieces[w])

Conserved(i) ==
    \/ i \in completed_pieces
    \/ Queued(i)
    \/ InFlight(i)
    \/ failed_pieces[i] >= MAX_RETRIES
    \/ i \in unavailable_pieces

\* C36: in a running session every needed piece that a listed peer claims
\* is completed, queued, in flight, abandoned or marked unavailable: no
\* path drops a piece.
C36_PieceConservation ==
    (mpc = "wait" /\ is_running)
        => \A i \in needed_pieces :
               (\E p \in Peers : i \in peer_list[p]) => Conserved(i)

\* The peers some worker of the session has evicted: a worker removes the
\* peer from its own peer_list (line 596).
Evicted == {p \in Peers : \E w \in Workers : p \notin wpeer_list[w]}

\* C37: _reassign_pieces never queues a request for a peer that a worker of
\* the session has evicted.
C37_NoRequestForEvictedPeer ==
    [][\A w \in Workers :
           ReassignPiece(w)
               => \A id \in Range(download_queue') \ Range(download_queue) :
                      requests'[id].peer_id \notin Evicted]_vars

\* ---------------------------------------------------------------------
\* The threads of one download session and the six threading.Lock objects
\* of the node (peer.py lines 54 and 75-79): the thread of start_download,
\* the thread of _manage_peer_connections and one _download_manager thread
\* per peer.  thread_pc[t] is the statement thread t is at; lock_holder[l]
\* is the thread inside `with l`.  What the threads do to the queue and to
\* the piece sets is left to the other specifications; here a branch that
\* depends on them is taken either way.

lock_frame == <<serve_vars, track_vars, file_vars, loop_vars, peer_conn,
    sessions, download_queue, requests, completed_pieces, active_downloads,
    failed_pieces, connected_peers, peer_scores, unavailable_pieces,
    download_history, peer_list, main_vars, wpc, request, wpeer_list,
    reconnect, pending_pieces, queue_copy, piece_data, response, env_vars,
    acks>>

\* The locks thread t is inside.
held_by(t) == {l \in Locks : lock_holder[l] = t}

\* connected_peers as a dictionary of sockets: the socket recorded for a
\* peer, and `peer_id in self.connected_peers`.
recorded(peer_id) ==
    {c \in Conns : sockets[c].peer_id = peer_id /\ sockets[c].state = "recorded"}
is_connected(peer_id) == recorded(peer_id) # {}

\* socket.socket(...): the next socket object of the process.
new_socket == CHOOSE c \in Conns :
    /\ sockets[c].state = "none"
    /\ \A d \in Conns : d < c => sockets[d].state # "none"

\* The `with lock:` statements a thread enters, by the label it is at: the
\* lock and the first statement inside.
AcquireAt_lock_first ==
    [stmt \in {"w_evict"} |-> [lock |-> "_lock", then |-> "w_reassign"]]
    @@ [stmt \in {"w_reassign"} |-> [lock |-> "_peer_lock", then |-> "w_reassigning"]]
    @@ [stmt \in {"m_peer"} |-> [lock |-> "_peer_lock", then |-> "m_snapshot"]]
    @@ [stmt \in {"c_enter"} |-> [lock |-> "_lock", then |-> "c_check"]]
    @@ [stmt \in {"c_connect"} |-> [lock |-> "_connect_lock", then |-> "c_io"]]
    @@ [stmt \in {"c_store"} |-> [lock |-> "_lock", then |-> "c_storing"]]
    @@ [stmt \in {"s_clear_piece"} |-> [lock |-> "_piece_lock", then |-> "s_clearing_piece"]]
    @@ [stmt \in {"s_clear_download"} |-> [lock |-> "_download_lock", then |-> "s_clearing_download"]]
    @@ [stmt \in {"s_poll"} |-> [lock |-> "_piece_lock", then |-> "s_polling"]]
    @@ [stmt \in {"s_update"} |-> [lock |-> "_piece_lock", then |-> "s_updating"]]
    @@ [stmt \in {"s_close"} |-> [lock |-> "_lock", then |-> "s_closing"]]
    @@ [stmt \in {"w_check"} |-> [lock |-> "_lock", then |-> "w_checking"]]
    @@ [stmt \in {"w_assign"} |-> [lock |-> "_assignment_lock", then |-> "w_assigning"]]
    @@ [stmt \in {"w_close"} |-> [lock |-> "_lock", then |-> "w_closing"]]
    @@ [stmt \in {"w_reset"} |-> [lock |-> "_assignment_lock", then |-> "w_resetting"]]
    @@ [stmt \in {"w_score"} |-> [lock |-> "_peer_lock", then |-> "w_scoring"]]
    @@ [stmt \in {"w_piece"} |-> [lock |-> "_piece_lock", then |-> "w_marking"]]
    @@ [stmt \in {"w_store"} |-> [lock |-> "_download_lock", then |-> "w_storing"]]
    @@ [stmt \in {"w_final"} |-> [lock |-> "_assignment_lock", then |-> "w_finishing"]]

AcquireAt ==
    \* start_download, lines 122, 126, 162, 168 and _close_all_connections 431
    [stmt \in {"s_clear_piece"} |-> [lock |-> "_piece_lock", then |-> "s_clearing_piece"]]
    @@ [stmt \in {"s_clear_download"} |-> [lock |-> "_download_lock", then |-> "s_clearing_download"]]
    @@ [stmt \in {"s_poll"} |-> [lock |-> "_piece_lock", then |-> "s_polling"]]
    @@ [stmt \in {"s_update"} |-> [lock |-> "_piece_lock", then |-> "s_updating"]]
    @@ [stmt \in {"s_close"} |-> [lock |-> "_lock", then |-> "s_closing"]]
    \* _manage_peer_connections, line 513
    @@ [stmt \in {"m_peer"} |-> [lock |-> "_peer_lock", then |-> "m_snapshot"]]
    \* _connect_to_peer, lines 363, 368 and 386
    @@ [stmt \in {"c_enter"} |-> [lock |-> "_lock", then |-> "c_check"]]
    @@ [stmt \in {"c_connect"} |-> [lock |-> "_connect_lock", then |-> "c_io"]]
    @@ [stmt \in {"c_store"} |-> [lock |-> "_lock", then |-> "c_storing"]]
    \* _download_manager, lines 554, 561, 423 (_close_peer_connection), 595,
    \* 906 (_reassign_pieces), 600, 613 or 627, 618 or 631, 622 and 651
    @@ [stmt \in {"w_check"} |-> [lock |-> "_lock", then |-> "w_checking"]]
    @@ [stmt \in {"w_assign"} |-> [lock |-> "_assignment_lock", then |-> "w_assigning"]]
    @@ [stmt \in {"w_close"} |-> [lock |-> "_lock", then |-> "w_closing"]]
    @@ [stmt \in {"w_evict"} |-> [lock |-> "_peer_lock", then |-> "w_reassign"]]
    @@ [stmt \in {"w_reassign"} |-> [lock |-> "_lock", then |-> "w_reassigning"]]
    @@ [stmt \in {"w_reset"} |-> [lock |-> "_assignment_lock", then |-> "w_resetting"]]
    @@ [stmt \in {"w_score"} |-> [lock |-> "_peer_lock", then |-> "w_scoring"]]
    @@ [stmt \in {"w_piece"} |-> [lock |-> "_piece_lock", then |-> "w_marking"]]
    @@ [stmt \in {"w_store"} |-> [lock |-> "_download_lock", then |-> "w_storing"]]
    @@ [stmt \in {"w_final"} |-> [lock |-> "_assignment_lock", then |-> "w_finishing"]]

\* The ends of the `with` blocks whose body touches neither the sockets nor
\* the assignments: the lock released and the statements that can follow.
ReleaseAt ==
    \* start_download: 122-124, 126-127, 162-164 (then 166, 176, 180 or the
    \* sleep of 184), 168-170
    [stmt \in {"s_clearing_piece"} |-> [lock |-> "_piece_lock", then |-> {"s_clear_download"}]]
    @@ [stmt \in {"s_clearing_download"} |-> [lock |-> "_download_lock", then |-> {"s_spawn"}]]
    @@ [stmt \in {"s_polling"} |-> [lock |-> "_piece_lock", then |-> {"s_update", "s_return", "s_poll"}]]
    @@ [stmt \in {"s_updating"} |-> [lock |-> "_piece_lock", then |-> {"s_stop"}]]
    \* _manage_peer_connections: the end of the block of 513, then sleep(1)
    @@ [stmt \in {"m_release"} |-> [lock |-> "_peer_lock", then |-> {"m_loop"}]]
    \* _download_manager: 554-558, 906-942 inside 595-597, 613-615 or
    \* 627-628, 618-619 (then 622) or 631-634 (then the loop), 622-623
    @@ [stmt \in {"w_checking"} |-> [lock |-> "_lock", then |-> {"w_loop", "w_assign"}]]
    @@ [stmt \in {"w_reassigning"} |-> [lock |-> "_lock", then |-> {"w_evicted"}]]
    @@ [stmt \in {"w_evicted"} |-> [lock |-> "_peer_lock", then |-> {"w_reset"}]]
    @@ [stmt \in {"w_scoring"} |-> [lock |-> "_peer_lock", then |-> {"w_piece"}]]
    @@ [stmt \in {"w_marking"} |-> [lock |-> "_piece_lock", then |-> {"w_store", "w_loop"}]]
    @@ [stmt \in {"w_storing"} |-> [lock |-> "_download_lock", then |-> {"w_loop"}]]

\* The statements at which a thread is inside connect, sendall or recv:
\* lines 369-377 of _connect_to_peer and _download_piece (line 609).
Blocking == {"c_io", "w_download"}

\* threading.Lock.acquire at the head of a `with`: blocks while another
\* thread, or the thread itself, is inside the lock.
Acquire(t) ==
    /\ thread_pc[t] \in DOMAIN AcquireAt
    /\ LET entry == AcquireAt[thread_pc[t]]
       IN  /\ lock_holder[entry.lock] = NoThread
           /\ lock_holder' = [lock_holder EXCEPT ![entry.lock] = t]
           /\ thread_pc' = [thread_pc EXCEPT ![t] = entry.then]
    /\ UNCHANGED <<lock_frame, is_running, peer_assignments, current_peer_id,
                   thread_peer, to_connect, sockets>>

\* The end of a `with` block.
Release(t) ==
    /\ thread_pc[t] \in DOMAIN ReleaseAt
    /\ LET exit == ReleaseAt[thread_pc[t]]
       IN  /\ lock_holder[exit.lock] = t
           /\ lock_holder' = [lock_holder EXCEPT ![exit.lock] = NoThread]
           /\ \E stmt \in exit.then :
                  thread_pc' = [thread_pc EXCEPT ![t] = stmt]
    /\ UNCHANGED <<lock_frame, is_running, peer_assignments, current_peer_id,
                   thread_peer, to_connect, sockets>>

\* socket.close() on whatever connected_peers holds for the peers of P.
close_sockets(P) ==
    [c \in Conns |->
        IF sockets[c].state = "recorded" /\ sockets[c].peer_id \in P
        THEN [peer_id |-> NoPeer, state |-> "closed", thread |-> NoThread]
        ELSE sockets[c]]

\* Where _connect_to_peer returns to: line 526 of the manager, or line 582
\* of a download thread, which goes on to _download_piece after True and,
\* after False, tries again within RECONNECT_TIMEOUT or gives up (588).
returns_to(t, value) ==
    IF t = ManagerThread THEN {"m_next"}
    ELSE IF value THEN {"w_download"}
    ELSE {"c_enter", "w_close"}

\* start_download, line 119.
SD_Start ==
    /\ thread_pc[MainThread] = "idle"
    /\ is_running' = TRUE
    /\ thread_pc' = [thread_pc EXCEPT ![MainThread] = "s_clear_piece"]
    /\ UNCHANGED <<lock_frame, peer_assignments, current_peer_id, lock_holder,
                   thread_peer, to_connect, sockets>>

\* Lines 133-152: the connection manager and one download thread per peer
\* are started; the caller goes on to the loop of line 157.
SD_StartThreads ==
    /\ thread_pc[MainThread] = "s_spawn"
    /\ thread_pc' = [t \in Threads |->
                        IF t = MainThread THEN "s_poll"
                        ELSE IF t = ManagerThread THEN "m_loop" ELSE "w_loop"]
    /\ UNCHANGED <<lock_frame, is_running, peer_assignments, current_peer_id,
                   lock_holder, thread_peer, to_connect, sockets>>

\* Line 172, after the block of 168-170.
SD_Stop ==
    /\ thread_pc[MainThread] = "s_stop"
    /\ is_running' = FALSE
    /\ thread_pc' = [thread_pc EXCEPT ![MainThread] = "s_close"]
    /\ UNCHANGED <<lock_frame, peer_assignments, current_peer_id, lock_holder,
                   thread_peer, to_connect, sockets>>

\* _close_all_connections, lines 429-437, inside _lock: every socket of
\* connected_peers is closed and forgotten; then start_download returns.
SD_CloseAllConnections ==
    /\ thread_pc[MainThread] = "s_closing"
    /\ lock_holder["_lock"] = MainThread
    /\ sockets' = close_sockets(Peers)
    /\ lock_holder' = [lock_holder EXCEPT !["_lock"] = NoThread]
    /\ thread_pc' = [thread_pc EXCEPT ![MainThread] = "returned"]
    /\ UNCHANGED <<lock_frame, is_running, peer_assignments, current_peer_id,
                   thread_peer, to_connect>>

\* Lines 176-182 `return False`, through the finally of 193-194.
SD_ReturnFalse ==
    /\ thread_pc[MainThread] = "s_return"
    /\ is_running' = FALSE
    /\ thread_pc' = [thread_pc EXCEPT ![MainThread] = "returned"]
    /\ UNCHANGED <<lock_frame, peer_assignments, current_peer_id, lock_holder,
                   thread_peer, to_connect, sockets>>

\* _manage_peer_connections, line 510: `while self.is_running`.
MPC_Loop ==
    /\ thread_pc[ManagerThread] = "m_loop"
    /\ thread_pc' = [thread_pc EXCEPT ![ManagerThread] =
                        IF is_running THEN "m_peer" ELSE "exited"]
    /\ UNCHANGED <<lock_frame, is_running, peer_assignments, current_peer_id,
                   lock_holder, thread_peer, to_connect, sockets>>

\* Lines 514-522, inside _peer_lock: the peers of peer_list that are not in
\* connected_peers (max_connections exceeds the number of peers).
MPC_Snapshot ==
    /\ thread_pc[ManagerThread] = "m_snapshot"
    /\ to_connect' = {p \in Peers : ~is_connected(p)}
    /\ thread_pc' = [thread_pc EXCEPT ![ManagerThread] = "m_next"]
    /\ UNCHANGED <<lock_frame, is_running, peer_assignments, current_peer_id,
                   lock_holder, thread_peer, sockets>>

\* Lines 525-526, still inside _peer_lock: the next peer of the list is
\* handed to _connect_to_peer; after the last one the block ends.
MPC_NextPeer ==
    /\ thread_pc[ManagerThread] = "m_next"
    /\ IF to_connect = {}
       THEN /\ thread_pc' = [thread_pc EXCEPT ![ManagerThread] = "m_release"]
            /\ UNCHANGED <<thread_peer, to_connect>>
       ELSE LET peer_id == CHOOSE p \in to_connect :
                               \A q \in to_connect : p <= q
            IN  /\ thread_peer' = [thread_peer EXCEPT ![ManagerThread] = peer_id]
                /\ to_connect' = to_connect \ {peer_id}
                /\ thread_pc' = [thread_pc EXCEPT ![ManagerThread] = "c_enter"]
    /\ UNCHANGED <<lock_frame, is_running, peer_assignments, current_peer_id,
                   lock_holder, sockets>>

\* _connect_to_peer, lines 363-366, inside _lock: a peer already in
\* connected_peers is answered with True.
CTP_Check(t) ==
    /\ thread_pc[t] = "c_check"
    /\ lock_holder["_lock"] = t
    /\ lock_holder' = [lock_holder EXCEPT !["_lock"] = NoThread]
    /\ \E stmt \in IF is_connected(thread_peer[t]) THEN returns_to(t, TRUE)
                   ELSE {"c_connect"} :
           thread_pc' = [thread_pc EXCEPT ![t] = stmt]
    /\ UNCHANGED <<lock_frame, is_running, peer_assignments, current_peer_id,
                   thread_peer, to_connect, sockets>>

\* Lines 369-383, inside _connect_lock: connect, the handshake and its
\* answer.  A handshake answered with success leaves the socket in the
\* local `sock`; a refusal, a timeout or an error (389-394) returns False.
CTP_Handshake(t) ==
    /\ thread_pc[t] = "c_io"
    /\ lock_holder["_connect_lock"] = t
    /\ lock_holder' = [lock_holder EXCEPT !["_connect_lock"] = NoThread]
    /\ \/ /\ \E c \in Conns : sockets[c].state = "none"
          /\ sockets' = [sockets EXCEPT ![new_socket] =
                            [peer_id |-> thread_peer[t], state |-> "local",
                             thread |-> t]]
          /\ thread_pc' = [thread_pc EXCEPT ![t] = "c_store"]
       \/ /\ \E stmt \in returns_to(t, FALSE) :
                 thread_pc' = [thread_pc EXCEPT ![t] = stmt]
          /\ UNCHANGED sockets
    /\ UNCHANGED <<lock_frame, is_running, peer_assignments, current_peer_id,
                   thread_peer, to_connect>>

\* Lines 386-388, inside _lock: connected_peers[peer_id] = sock; return
\* True.  A socket the dictionary held for the peer is no longer referenced.
CTP_Store(t) ==
    /\ thread_pc[t] = "c_storing"
    /\ lock_holder["_lock"] = t
    /\ sockets' = [c \in Conns |->
                      IF sockets[c].state = "local" /\ sockets[c].thread = t
                      THEN [sockets[c] EXCEPT !.state = "recorded",
                                              !.thread = NoThread]
                      ELSE IF c \in recorded(thread_peer[t])
                      THEN [sockets[c] EXCEPT !.state = "replaced"]
                      ELSE sockets[c]]
    /\ lock_holder' = [lock_holder EXCEPT !["_lock"] = NoThread]
    /\ \E stmt \in returns_to(t, TRUE) :
           thread_pc' = [thread_pc EXCEPT ![t] = stmt]
    /\ UNCHANGED <<lock_frame, is_running, peer_assignments, current_peer_id,
                   thread_peer, to_connect>>

\* _download_manager, lines 542-551: `while self.is_running`, else the
\* finally of line 650; download_queue.get hands out a request (an empty
\* queue leaves the thread in the loop).
DM_Get(w) ==
    /\ thread_pc[w] = "w_loop"
    /\ thread_pc' = [thread_pc EXCEPT ![w] =
                        IF is_running THEN "w_check" ELSE "w_final"]
    /\ UNCHANGED <<lock_frame, is_running, peer_assignments, current_peer_id,
                   lock_holder, thread_peer, to_connect, sockets>>

\* Lines 561-572, inside _assignment_lock, for the peer the request names
\* (request.peer_id, line 549).
DM_Assign(w) ==
    /\ thread_pc[w] = "w_assigning"
    /\ lock_holder["_assignment_lock"] = w
    /\ \E peer_id \in Peers :
          LET what == assignment(w, peer_id)
          IN  /\ IF what = "requeue"
                 THEN /\ thread_pc' = [thread_pc EXCEPT ![w] = "w_loop"]
                      /\ thread_peer' = [thread_peer EXCEPT ![w] = NoPeer]
                 ELSE /\ thread_pc' = [thread_pc EXCEPT ![w] = "c_enter"]
                      /\ thread_peer' = [thread_peer EXCEPT ![w] = peer_id]
              /\ IF what = "take"
                 THEN /\ peer_assignments' = [peer_assignments EXCEPT ![peer_id] = w]
                      /\ current_peer_id' = [current_peer_id EXCEPT ![w] = peer_id]
                 ELSE UNCHANGED <<peer_assignments, current_peer_id>>
    /\ lock_holder' = [lock_holder EXCEPT !["_assignment_lock"] = NoThread]
    /\ UNCHANGED <<lock_frame, is_running, to_connect, sockets>>

\* _close_peer_connection, lines 415-425: the socket connected_peers holds
\* for the peer is closed and, inside _lock, forgotten.
DM_ClosePeerConnection(w) ==
    /\ thread_pc[w] = "w_closing"
    /\ lock_holder["_lock"] = w
    /\ sockets' = close_sockets({thread_peer[w]})
    /\ lock_holder' = [lock_holder EXCEPT !["_lock"] = NoThread]
    /\ thread_pc' = [thread_pc EXCEPT ![w] = "w_evict"]
    /\ UNCHANGED <<lock_frame, is_running, peer_assignments, current_peer_id,
                   thread_peer, to_connect>>

\* Lines 600-603 inside _assignment_lock, then task_done and `continue`.
DM_ResetAssignment(w) ==
    /\ thread_pc[w] = "w_resetting"
    /\ lock_holder["_assignment_lock"] = w
    /\ peer_assignments' = [p \in Peers |->
                               IF p = current_peer_id[w] THEN NoWorker
                               ELSE peer_assignments[p]]
    /\ current_peer_id' = [current_peer_id EXCEPT ![w] = NoPeer]
    /\ thread_peer' = [thread_peer EXCEPT ![w] = NoPeer]
    /\ lock_holder' = [lock_holder EXCEPT !["_assignment_lock"] = NoThread]
    /\ thread_pc' = [thread_pc EXCEPT ![w] = "w_loop"]
    /\ UNCHANGED <<lock_frame, is_running, to_connect, sockets>>

\* _download_piece, line 609: sendall and recv on the peer's socket; then
\* line 613 or 627.
DM_DownloadPiece(w) ==
    /\ thread_pc[w] = "w_download"
    /\ thread_pc' = [thread_pc EXCEPT ![w] = "w_score"]
    /\ UNCHANGED <<lock_frame, is_running, peer_assignments, current_peer_id,
                   lock_holder, thread_peer, to_connect, sockets>>

\* The finally of lines 650-654 inside _assignment_lock; the thread ends.
DM_Finally(w) ==
    /\ thread_pc[w] = "w_finishing"
    /\ lock_holder["_assignment_lock"] = w
    /\ peer_assignments' = [p \in Peers |->
                               IF p = current_peer_id[w] THEN NoWorker
                               ELSE peer_assignments[p]]
    /\ thread_peer' = [thread_peer EXCEPT ![w] = NoPeer]
    /\ lock_holder' = [lock_holder EXCEPT !["_assignment_lock"] = NoThread]
    /\ thread_pc' = [thread_pc EXCEPT ![w] = "exited"]
    /\ UNCHANGED <<lock_frame, is_running, current_peer_id, to_connect, sockets>>

LockNext ==
    \/ SD_Start
    \/ SD_StartThreads
    \/ SD_Stop
    \/ SD_CloseAllConnections
    \/ SD_ReturnFalse
    \/ MPC_Loop
    \/ MPC_Snapshot
    \/ MPC_NextPeer
    \/ \E t \in Threads : Acquire(t)
    \/ \E t \in Threads : Release(t)
    \/ \E t \in Threads : CTP_Check(t)
    \/ \E t \in Threads : CTP_Handshake(t)
    \/ \E t \in Threads : CTP_Store(t)
    \/ \E w \in Workers : DM_Get(w)
    \/ \E w \in Workers : DM_Assign(w)
    \/ \E w \in Workers : DM_ClosePeerConnection(w)
    \/ \E w \in Workers : DM_ResetAssignment(w)
    \/ \E w \in Workers : DM_DownloadPiece(w)
    \/ \E w \in Workers : DM_Finally(w)

LockSpec == Init /\ [][LockNext]_vars

\* The documented order of the scheduler locks: connect, peer, assignment,
\* piece, download (_lock has no place in it).
lock_order == <<"_connect_lock", "_peer_lock", "_assignment_lock",
                "_piece_lock", "_download_lock">>
lock_rank(l) == CHOOSE i \in DOMAIN lock_order : lock_order[i] = l
SchedulerLocks == Range(lock_order)

\* C31: no thread acquires a scheduler lock that is earlier in the order
\* connect, peer, assignment, piece, download while it holds a later one:
\* whenever a thread enters a scheduler lock, every scheduler lock it is
\* already inside comes before it in the order.
C31_LockOrder ==
    [][\A t \in Threads : \A l \in SchedulerLocks :
           (lock_holder[l] # t /\ lock_holder'[l] = t)
               => \A k \in held_by(t) \cap SchedulerLocks :
                      lock_rank(k) < lock_rank(l)]_vars

\* C32: a thread inside a blocking network operation (connect, send, recv)
\* holds no scheduler lock other than the connect lock.
C32_NoLockAcrossIO ==
    \A t \in Threads :
        thread_pc[t] \in Blocking
            => held_by(t) \cap SchedulerLocks \subseteq {"_connect_lock"}

\* A thread at the head of a `with` whose lock is taken, and the thread it
\* waits for.
waiting(t) ==
    /\ thread_pc[t] \in DOMAIN AcquireAt
    /\ lock_holder[AcquireAt[thread_pc[t]].lock] # NoThread
blocked_on(t) == lock_holder[AcquireAt[thread_pc[t]].lock]

\* C40: no reachable state has a cycle of threads each waiting for a lock
\* held by the next (a thread waiting for a lock it holds itself included):
\* there is no non-empty set of waiting threads each of which waits for a
\* thread of the set.
C40_NoDeadlock ==
    ~ \E S \in SUBSET Threads \ {{}} :
          \A t \in S : waiting(t) /\ blocked_on(t) \in S

\* The threads do contend: a download thread waits for the peer lock of the
\* manager, which, inside its call of _connect_to_peer, waits for the _lock
\* another thread is inside.
C40_Witness ==
    \E w \in Workers :
        /\ waiting(w)
        /\ blocked_on(w) = ManagerThread
        /\ waiting(ManagerThread)
        /\ blocked_on(ManagerThread) \notin {w, ManagerThread}
        /\ held_by(ManagerThread) = {"_peer_lock"}

\* C39: every outbound socket that completed a handshake is the one
\* connected_peers records for its peer (or about to be recorded by the
\* call that made it) or has been closed: connected_peers[peer_id] = sock
\* never replaces an open socket.
C39_NoSocketLeaked ==
    \A c \in Conns : sockets[c].state # "replaced"

====
